---- MODULE Spec2Model ----
(***************************************************************************)
(* The claims aggregation-and-filtering pipeline of the fraud dashboards:  *)
(* ingestion of an uploaded table, derived day counts, the state/channel/  *)
(* date filter and the views computed from the filtered records, as the    *)
(* dashboard variants under src/ implement them.                           *)
(*                                                                         *)
(* Encoding of values.  A pandas cell that may be missing and is not a     *)
(* string is None (NaT / NaN / null) or Some(x).  A date cell is           *)
(* <<"date", d>> in an uploaded file, <<"ts", d>> once it is a pandas      *)
(* Timestamp and <<"iso", d>> once it went through a dcc.Store (JSON), d   *)
(* a day number.  A missing string (NaN, Python None) is the string Null.  *)
(***************************************************************************)
EXTENDS Integers, Sequences, FiniteSets, TLC

\* ------------------------------------------------------------ bounds
MaxDay == 2          \* dates are the days 0..MaxDay
MaxRows == 3         \* rows of an uploaded table (dcc.Store dashboards)
MaxSharedRows == 1   \* rows of an uploaded table (global_df dashboard)
MaxIngestRows == 1   \* rows of an uploaded table (ingestion alone)
MaxSliderRows == 2   \* rows of an uploaded table (slider dashboard)
MaxGroups == 11      \* groups of a table of group counts
MaxCsvRows == 2       \* rows of an uploaded table (stateless dashboard)
MaxMonth == 2         \* calendar months of the dates of a record
MaxRecords == 2       \* records of a filtered set that is counted
MaxRadarChannels == 2 \* channels of the radar chart

\* ------------------------------------------------------------ values
None == <<>>
Some(x) == <<x>>
Null == "null"
Days == 0..MaxDay

States == {"MH", "KA"}
Channels == {"Agent", "Direct"}

Columns ==
    {"Dummy Policy No", "CORRESPONDENCESTATE", "CORRESPONDENCECITY",
     "CORRESPONDENCEPOSTCODE", "CHANNEL", "POLICYRISKCOMMENCEMENTDATE",
     "Date of Death", "INTIMATIONDATE", "Fraud Category"}

SeqsUpTo(S, n) == UNION {[1..k -> S] : k \in 0..n}

RawDate(d) == <<"date", d>>
RawText == <<"text", 0>>
Timestamp(d) == <<"ts", d>>

\* pd.to_datetime(cell, errors='coerce'): anything that is no date becomes NaT.
to_datetime(cell) ==
    IF cell = None THEN None
    ELSE IF cell[1] \in {"date", "ts", "iso"} THEN Timestamp(cell[2])
    ELSE None

\* (a - b).dt.days of two datetime cells: NaN as soon as one of them is NaT.
dt_days_bad(a, b) ==
    IF a = None \/ b = None THEN Some(0) ELSE Some(a[2] - b[2])

dt_days(a, b) ==
    IF a = None \/ b = None THEN None ELSE Some(a[2] - b[2])

\* Series.min() / Series.max() of a datetime column, NaT skipped; None when
\* nothing is left.
RECURSIVE ColMin(_)
ColMin(cells) ==
    IF cells = <<>> THEN None
    ELSE LET rest == ColMin(Tail(cells)) h == Head(cells) IN
         IF h = None THEN rest
         ELSE IF rest = None THEN Some(h[2])
         ELSE IF h[2] < rest[1] THEN Some(h[2]) ELSE rest

RECURSIVE ColMax(_)
ColMax(cells) ==
    IF cells = <<>> THEN None
    ELSE LET rest == ColMax(Tail(cells)) h == Head(cells) IN
         IF h = None THEN rest
         ELSE IF rest = None THEN Some(h[2])
         ELSE IF h[2] > rest[1] THEN Some(h[2]) ELSE rest

Column(rows, f) == [i \in 1..Len(rows) |-> rows[i][f]]

\* Series.nunique(): distinct non-null values.
nunique(vals) == Cardinality({vals[i] : i \in 1..Len(vals)} \ {Null})

\* round(n / d) for d > 0, a tie going to the even neighbour (Python and numpy
\* round this way when the value is an exact binary fraction).
RoundHalfEven(n, d) ==
    LET q == n \div d
        r == n - q * d
    IN  IF 2 * r < d THEN q
        ELSE IF 2 * r > d THEN q + 1
        ELSE IF q % 2 = 0 THEN q ELSE q + 1

\* a / b * 100 to one decimal, in tenths of a percent.
Rate10(a, b) == RoundHalfEven(1000 * a, b)

\* ------------------------------------------------------------ state
VARIABLES
    \* filter widgets of the observed browser session
    state_filter, channel_filter, start_date, end_date,
    \* sectry.py: the process-wide dataframe and the observed session
    global_df, contents, upload_status, main_content, date_allowed,
    channel_options, state_options, metrics, pending_metrics, memo,
    \* mainapp4.py / triy.py: the dcc.Store components and the callback outputs
    processed_data, upload_alert, dashboard_content, filtered_data, filter_state,
    kpi_metrics, charts, pending, trigger, cb_error,
    \* trydash.py: the city filter and the age slider
    city_filter, city_options, age_range,
    \* an aggregation applied to a table of group counts
    agg_input, agg_view, agg_output, agg_pass,
    \* mainapp4.py: the arguments of the latest filter_data request
    submitted,
    \* sectry.py: the figures of update_all_charts in the observed session
    figures, pending_charts

widgetVars == <<state_filter, channel_filter, start_date, end_date>>
sharedVars ==
    <<global_df, contents, upload_status, main_content, date_allowed,
      channel_options, state_options, metrics, pending_metrics, memo>>
storeVars ==
    <<processed_data, upload_alert, dashboard_content, filtered_data, filter_state,
      kpi_metrics, charts, pending, trigger, cb_error>>
sliderVars == <<city_filter, city_options, age_range>>
aggVars == <<agg_input, agg_view, agg_output, agg_pass>>
flightVars == <<submitted>>
chartVars == <<figures, pending_charts>>
vars == <<widgetVars, sharedVars, storeVars, sliderVars, aggVars, flightVars,
          chartVars>>

\* The variables of the other dashboard, in a specification that does not use it.
StoreUnused ==
    /\ processed_data = None
    /\ upload_alert = Null
    /\ dashboard_content = "none"
    /\ filtered_data = None
    /\ filter_state = None
    /\ kpi_metrics = None
    /\ charts = None
    /\ pending = {}
    /\ trigger = Null
    /\ cb_error = Null

SliderUnused ==
    /\ city_filter = None
    /\ city_options = {}
    /\ age_range = None

AggUnused ==
    /\ agg_input = <<>>
    /\ agg_view = Null
    /\ agg_output = <<>>
    /\ agg_pass = 0

FlightUnused == submitted = None

ChartUnused ==
    /\ figures = None
    /\ pending_charts = FALSE

SharedUnused ==
    /\ global_df = None
    /\ upload_status = Null
    /\ main_content = "none"
    /\ date_allowed = <<None, None>>
    /\ metrics = None
    /\ pending_metrics = FALSE
    /\ memo = None

\* ============================================================ sectry.py
\* One dashboard process, dataset in the module-level global_df; the observed
\* browser session is Observed, the other sessions only upload.
Sessions == {"A", "B"}
Observed == "A"

required_columns ==
    <<"POLICYRISKCOMMENCEMENTDATE", "Date of Death", "INTIMATIONDATE", "CHANNEL",
      "CORRESPONDENCESTATE", "Fraud Category", "Policy_Number">>

\* df.rename(columns={'Dummy Policy No': 'Policy_Number'})
RenamePolicy(cols) ==
    IF "Dummy Policy No" \in cols
    THEN (cols \ {"Dummy Policy No"}) \cup {"Policy_Number"}
    ELSE cols

missing_cols(cols) == SelectSeq(required_columns, LAMBDA c : c \notin cols)

\* Date conversion and the derived columns of one row.
SharedRow(r) ==
    LET s == to_datetime(r.start)
        d == to_datetime(r.death)
        i == to_datetime(r.intim)
    IN  [pol |-> r.pol, state |-> r.state, channel |-> r.channel,
         start |-> s, death |-> d, intim |-> i, fraud |-> r.fraud,
         p2d |-> dt_days(d, s), d2i |-> dt_days(i, d),
         Fraud_Flag |-> r.fraud \in {"Fraudulent", "Suspicious"}]

SharedFrame(f) ==
    [cols |-> RenamePolicy(f.cols),
     rows |-> [k \in 1..Len(f.rows) |-> SharedRow(f.rows[k])]]

NoUploadOutputs(kind, missing) ==
    [status |-> [kind |-> kind, missing |-> missing], main |-> "none",
     min_date_allowed |-> None, max_date_allowed |-> None,
     start |-> None, end |-> None,
     channel_options |-> {}, channel |-> Null,
     state_options |-> {}, state |-> Null]

\* upload_data(contents, filename): .out are the callback's outputs, .store is
\* Some(df) when global_df was assigned (None: global_df is left as it was).
upload_data(c) ==
    IF c = None
    THEN [out |-> NoUploadOutputs("none", <<>>), store |-> None]
    ELSE LET f == c[1] IN
    IF f.filename \notin {"csv", "xls"}
    THEN [out |-> NoUploadOutputs("unsupported", <<>>), store |-> None]
    ELSE IF ~f.readable
    THEN [out |-> NoUploadOutputs("error", <<>>), store |-> None]
    ELSE IF missing_cols(RenamePolicy(f.cols)) # <<>>
    THEN [out |-> NoUploadOutputs("missing", missing_cols(RenamePolicy(f.cols))),
          store |-> None]
    ELSE LET df == SharedFrame(f)
             min_date == ColMin(Column(df.rows, "intim"))
             max_date == ColMax(Column(df.rows, "intim"))
             present(fld) == {df.rows[k][fld] : k \in 1..Len(df.rows)} \ {Null}
         IN  IF min_date = None
             \* NaT.date() raises after global_df = df was executed
             THEN [out |-> NoUploadOutputs("error", <<>>), store |-> Some(df)]
             ELSE [out |-> [status |-> [kind |-> "ok", missing |-> <<>>],
                            main |-> "block",
                            min_date_allowed |-> min_date,
                            max_date_allowed |-> max_date,
                            start |-> min_date, end |-> max_date,
                            channel_options |-> {"All"} \cup present("channel"),
                            channel |-> "All",
                            state_options |-> {"All"} \cup present("state"),
                            state |-> "All"],
                   store |-> Some(df)]

\* f"{x:.1f}%" of a rate given in tenths of a percent.
Percent1(tenths) == <<"%.1f%", tenths>>

\* The outputs "0", "0", "0%", "$0" of the two early returns.
ZeroMetrics ==
    [total_cases |-> 0, fraud_cases |-> 0, fraud_rate |-> <<"0%">>,
     avg_claim |-> "$0", filtered_df |-> None]

\* The rows update_metrics keeps (its local filtered_df).
SharedFilter(df, start, end, channel, state) ==
    LET byDate(r) ==    \* a NaT compares False
            /\ r.intim # None
            /\ r.intim[2] >= start[1]
            /\ r.intim[2] <= end[1]
        byChannel(r) == (channel # Null /\ channel # "All") => r.channel = channel
        byState(r) == (state # Null /\ state # "All") => r.state = state
    IN  SelectSeq(SelectSeq(SelectSeq(df.rows, byDate), byChannel), byState)

\* update_metrics(start_date, end_date, channel, state) reading global_df g.
update_metrics(g, start, end, channel, state) ==
    IF g = None THEN ZeroMetrics
    ELSE IF start = None \/ end = None THEN ZeroMetrics
    ELSE LET filtered == SharedFilter(g[1], start, end, channel, state)
             total == nunique(Column(filtered, "pol"))
             fraud == Cardinality({k \in 1..Len(filtered) : filtered[k].Fraud_Flag})
         IN  [total_cases |-> total, fraud_cases |-> fraud,
              fraud_rate |-> IF total > 0 THEN Percent1(Rate10(fraud, total))
                             ELSE Percent1(0),
              avg_claim |-> "N/A",   \* no CLAIMAMOUNT column in the files modelled
              filtered_df |-> Some(filtered)]

\* ---- uploaded files
SharedRawRow(sc, dd) ==
    [pol |-> "P1", state |-> sc[1], channel |-> sc[2],
     start |-> dd[1], death |-> RawDate(MaxDay), intim |-> dd[2],
     fraud |-> "Fraudulent"]

SharedRawRows ==
    {SharedRawRow(sc, dd) :
        sc \in {<<"MH", "Agent">>, <<"KA", "Direct">>},
        dd \in {<<RawDate(0), RawDate(MaxDay)>>, <<None, RawDate(1)>>}}
    \cup {SharedRawRow(<<"MH", "Agent">>, <<RawDate(1), None>>)}

CsvFile(cols, rows) ==
    [filename |-> "csv", readable |-> TRUE, cols |-> cols, rows |-> rows]

\* A table of two records with different intimation dates.
SharedPair ==
    <<SharedRawRow(<<"MH", "Agent">>, <<RawDate(0), RawDate(0)>>),
      SharedRawRow(<<"KA", "Direct">>, <<RawDate(0), RawDate(MaxDay)>>)>>

SharedFiles ==
    {CsvFile(Columns, rows) :
        rows \in SeqsUpTo(SharedRawRows, MaxSharedRows) \cup {SharedPair}}
    \cup {CsvFile(Columns \ {c}, <<SharedRawRow(<<"MH", "Agent">>,
                                               <<RawDate(0), RawDate(0)>>)>>) :
            c \in {"CHANNEL", "CORRESPONDENCECITY"}}
    \cup {[filename |-> "txt", readable |-> TRUE, cols |-> Columns, rows |-> <<>>],
          [filename |-> "xls", readable |-> FALSE, cols |-> Columns, rows |-> <<>>]}

\* ---- actions
Criteria == <<start_date, end_date, channel_filter, state_filter>>

\* A browser session uploads a file: upload_data runs in the server process.
UploadData(s, f) ==
    LET r == upload_data(Some(f)) IN
    /\ UNCHANGED <<storeVars, sliderVars, aggVars, flightVars,
                   chartVars>>
    /\ global_df' = IF r.store = None THEN global_df ELSE r.store
    /\ IF s = Observed
       THEN /\ ~pending_metrics
            /\ contents' = Some(f)
            /\ upload_status' = r.out.status
            /\ main_content' = r.out.main
            /\ date_allowed' = <<r.out.min_date_allowed, r.out.max_date_allowed>>
            /\ start_date' = r.out.start
            /\ end_date' = r.out.end
            /\ channel_options' = r.out.channel_options
            /\ channel_filter' = r.out.channel
            /\ state_options' = r.out.state_options
            /\ state_filter' = r.out.state
            /\ pending_metrics' = TRUE   \* its outputs are update_metrics' inputs
            /\ memo' = None
            /\ UNCHANGED metrics
       ELSE UNCHANGED <<widgetVars, contents, upload_status, main_content,
                        date_allowed, channel_options, state_options, metrics,
                        pending_metrics, memo>>

\* The user of the observed session changes one filter widget.  The widgets are
\* inside main-content, shown only after a successful upload; the date picker
\* is not clearable and offers the days min_date_allowed..max_date_allowed, the
\* end not before the start;
\* a dropdown is clearable.  A widget set
\* to the value it holds triggers nothing.
Pickable(d) ==
    /\ main_content = "block"
    /\ date_allowed[1] # None => d >= date_allowed[1][1]
    /\ date_allowed[2] # None => d <= date_allowed[2][1]

SetStartDate(v) ==
    /\ ~pending_metrics
    /\ Some(v) # start_date
    /\ Pickable(v)
    /\ end_date # None => v <= end_date[1]
    /\ start_date' = Some(v)
    /\ pending_metrics' = TRUE
    /\ UNCHANGED <<storeVars, sliderVars, aggVars, flightVars,
                   chartVars>>
    /\ UNCHANGED <<state_filter, channel_filter, end_date, global_df, contents,
                   upload_status, main_content, date_allowed, channel_options,
                   state_options, metrics, memo>>

SetEndDate(v) ==
    /\ ~pending_metrics
    /\ Some(v) # end_date
    /\ Pickable(v)
    /\ start_date # None => start_date[1] <= v
    /\ end_date' = Some(v)
    /\ pending_metrics' = TRUE
    /\ UNCHANGED <<storeVars, sliderVars, aggVars, flightVars,
                   chartVars>>
    /\ UNCHANGED <<state_filter, channel_filter, start_date, global_df, contents,
                   upload_status, main_content, date_allowed, channel_options,
                   state_options, metrics, memo>>

SetChannel(v) ==
    /\ ~pending_metrics
    /\ v # channel_filter
    /\ main_content = "block"
    /\ v \in channel_options \cup {Null}
    /\ channel_filter' = v
    /\ pending_metrics' = TRUE
    /\ UNCHANGED <<storeVars, sliderVars, aggVars, flightVars,
                   chartVars>>
    /\ UNCHANGED <<state_filter, start_date, end_date, global_df, contents,
                   upload_status, main_content, date_allowed, channel_options,
                   state_options, metrics, memo>>

SetState(v) ==
    /\ ~pending_metrics
    /\ v # state_filter
    /\ main_content = "block"
    /\ v \in state_options \cup {Null}
    /\ state_filter' = v
    /\ pending_metrics' = TRUE
    /\ UNCHANGED <<storeVars, sliderVars, aggVars, flightVars,
                   chartVars>>
    /\ UNCHANGED <<channel_filter, start_date, end_date, global_df, contents,
                   upload_status, main_content, date_allowed, channel_options,
                   state_options, metrics, memo>>

\* The metrics callback of the observed session runs on the changed inputs.
\* memo keeps the first invocation after the session's own upload.
UpdateMetrics ==
    /\ pending_metrics
    /\ metrics' = update_metrics(global_df, start_date, end_date,
                                 channel_filter, state_filter)
    /\ pending_metrics' = FALSE
    /\ memo' = IF memo = None
               THEN Some([contents |-> contents, criteria |-> Criteria,
                          metrics |-> metrics'])
               ELSE memo
    /\ UNCHANGED <<widgetVars, global_df, contents, upload_status, main_content,
                   date_allowed, channel_options, state_options>>
    /\ UNCHANGED <<storeVars, sliderVars, aggVars, flightVars,
                   chartVars>>

\* The page as first served: upload_data(None, None) and update_metrics ran.
InitShared ==
    /\ global_df = None
    /\ contents = None
    /\ upload_status = upload_data(None).out.status
    /\ main_content = "none"
    /\ date_allowed = <<None, None>>
    /\ start_date = None
    /\ end_date = None
    /\ channel_options = {}
    /\ channel_filter = Null
    /\ state_options = {}
    /\ state_filter = Null
    /\ metrics = ZeroMetrics
    /\ pending_metrics = FALSE
    /\ memo = None
    /\ StoreUnused
    /\ SliderUnused
    /\ AggUnused
    /\ FlightUnused
    /\ ChartUnused

NextShared ==
    \/ \E s \in Sessions, f \in SharedFiles : UploadData(s, f)
    \/ \E v \in Days : SetStartDate(v)
    \/ \E v \in Days : SetEndDate(v)
    \/ \E v \in {"All", Null} \cup Channels : SetChannel(v)
    \/ \E v \in {"All", Null} \cup States : SetState(v)
    \/ UpdateMetrics

SpecShared == InitShared /\ [][NextShared]_vars

\* ---- the charts of the observed session
\* update_all_charts(start_date, end_date, channel, state) reading global_df g:
\* nine empty figures, or the nine figures drawn from filtered_df.
NoDataFigures == [kind |-> "No data available", filtered_df |-> None]

update_all_charts(g, start, end, channel, state) ==
    IF g = None THEN NoDataFigures
    ELSE IF start = None \/ end = None THEN NoDataFigures
    ELSE LET filtered == SharedFilter(g[1], start, end, channel, state) IN
         IF filtered = <<>> THEN NoDataFigures
         ELSE [kind |-> "figures", filtered_df |-> Some(filtered)]

\* update_metrics and update_all_charts filter global_df.copy() and assign
\* neither global_df nor a column of it: the frame global_df holds after a run
\* that worked on the records `filtered`.
view_frame_bad(g, filtered) ==
    IF g = None THEN g ELSE Some([g[1] EXCEPT !.rows = filtered])
view_frame(g, filtered) == g

\* The records a view callback works on.
Working(g, start, end, channel, state) ==
    IF g = None \/ start = None \/ end = None THEN <<>>
    ELSE SharedFilter(g[1], start, end, channel, state)

\* The files of the sessions: a table of one record, the table of two, a file
\* without data rows, one without a required column, one of another format
\* and an unreadable one.
SessionFiles ==
    {CsvFile(Columns, rows) :
        rows \in SeqsUpTo({SharedPair[1]}, MaxSharedRows) \cup {SharedPair}}
    \cup {CsvFile(Columns \ {"CHANNEL"}, <<SharedPair[1]>>),
          [filename |-> "txt", readable |-> TRUE, cols |-> Columns, rows |-> <<>>],
          [filename |-> "xls", readable |-> FALSE, cols |-> Columns, rows |-> <<>>]}

\* A browser session uploads a file; in the observed session the outputs of
\* upload_data are inputs of both update_metrics and update_all_charts.
SessionUpload(s, f) ==
    LET r == upload_data(Some(f)) IN
    /\ global_df' = IF r.store = None THEN global_df ELSE r.store
    /\ IF s = Observed
       THEN /\ ~pending_metrics /\ ~pending_charts
            /\ Some(f) # contents
            /\ contents' = Some(f)
            /\ upload_status' = r.out.status
            /\ main_content' = r.out.main
            /\ date_allowed' = <<r.out.min_date_allowed, r.out.max_date_allowed>>
            /\ start_date' = r.out.start
            /\ end_date' = r.out.end
            /\ channel_options' = r.out.channel_options
            /\ channel_filter' = r.out.channel
            /\ state_options' = r.out.state_options
            /\ state_filter' = r.out.state
            /\ pending_metrics' = TRUE
            /\ pending_charts' = TRUE
            /\ UNCHANGED <<metrics, memo, figures>>
       ELSE UNCHANGED <<widgetVars, contents, upload_status, main_content,
                        date_allowed, channel_options, state_options, metrics,
                        pending_metrics, memo, chartVars>>
    /\ UNCHANGED <<storeVars, sliderVars, aggVars, flightVars>>

\* The user of the observed session picks an option of a dropdown.
SessionSetChannel(v) ==
    /\ ~pending_metrics /\ ~pending_charts
    /\ main_content = "block"
    /\ v \in channel_options
    /\ v # channel_filter
    /\ channel_filter' = v
    /\ pending_metrics' = TRUE
    /\ pending_charts' = TRUE
    /\ UNCHANGED <<state_filter, start_date, end_date, global_df, contents,
                   upload_status, main_content, date_allowed, channel_options,
                   state_options, metrics, memo, figures>>
    /\ UNCHANGED <<storeVars, sliderVars, aggVars, flightVars>>

SessionSetState(v) ==
    /\ ~pending_metrics /\ ~pending_charts
    /\ main_content = "block"
    /\ v \in state_options
    /\ v # state_filter
    /\ state_filter' = v
    /\ pending_metrics' = TRUE
    /\ pending_charts' = TRUE
    /\ UNCHANGED <<channel_filter, start_date, end_date, global_df, contents,
                   upload_status, main_content, date_allowed, channel_options,
                   state_options, metrics, memo, figures>>
    /\ UNCHANGED <<storeVars, sliderVars, aggVars, flightVars>>

SessionUpdateMetrics ==
    /\ pending_metrics
    /\ metrics' = update_metrics(global_df, start_date, end_date,
                                 channel_filter, state_filter)
    /\ pending_metrics' = FALSE
    /\ global_df' = view_frame(global_df, Working(global_df, start_date, end_date,
                                                  channel_filter, state_filter))
    /\ UNCHANGED <<widgetVars, contents, upload_status, main_content,
                   date_allowed, channel_options, state_options, memo, figures,
                   pending_charts>>
    /\ UNCHANGED <<storeVars, sliderVars, aggVars, flightVars>>

SessionUpdateAllCharts ==
    /\ pending_charts
    /\ figures' = update_all_charts(global_df, start_date, end_date,
                                    channel_filter, state_filter)
    /\ pending_charts' = FALSE
    /\ global_df' = view_frame(global_df, Working(global_df, start_date, end_date,
                                                  channel_filter, state_filter))
    /\ UNCHANGED <<widgetVars, contents, upload_status, main_content,
                   date_allowed, channel_options, state_options, metrics,
                   pending_metrics, memo>>
    /\ UNCHANGED <<storeVars, sliderVars, aggVars, flightVars>>

\* The page as first served: the three callbacks ran without data.
InitSession ==
    /\ global_df = None
    /\ contents = None
    /\ upload_status = upload_data(None).out.status
    /\ main_content = "none"
    /\ date_allowed = <<None, None>>
    /\ start_date = None
    /\ end_date = None
    /\ channel_options = {}
    /\ channel_filter = Null
    /\ state_options = {}
    /\ state_filter = Null
    /\ metrics = ZeroMetrics
    /\ pending_metrics = FALSE
    /\ memo = None
    /\ figures = NoDataFigures
    /\ pending_charts = FALSE
    /\ StoreUnused
    /\ SliderUnused
    /\ AggUnused
    /\ FlightUnused

NextSession ==
    \/ \E s \in Sessions, f \in SessionFiles : SessionUpload(s, f)
    \/ \E v \in {"All"} \cup Channels : SessionSetChannel(v)
    \/ \E v \in {"All"} \cup States : SessionSetState(v)
    \/ SessionUpdateMetrics
    \/ SessionUpdateAllCharts

SpecSession == InitSession /\ [][NextSession]_vars

\* ============================================================ mainapp4.py, triy.py
\* The dcc.Store dashboards: parse_contents fills processed-data, filter_data
\* derives filtered-data and filter-state, the KPI and chart callbacks read
\* filtered-data.  Each store holds JSON.

\* A Python value is falsy: `not data` for None and for the empty list.
Falsy(data) == data = None \/ data[1].rows = <<>>

\* What a dcc.Store returns of a value put into it: a Timestamp comes back as
\* its ISO string, NaT and NaN as null.
to_json(cell) ==
    IF cell = None THEN None
    ELSE IF cell[1] = "ts" THEN <<"iso", cell[2]>>
    ELSE cell

\* parse_contents: date columns to datetime, then the two day counts.
ParsedRow(r) ==
    LET s == to_datetime(r.start)
        d == to_datetime(r.death)
        i == to_datetime(r.intim)
    IN  [pol |-> r.pol, state |-> r.state, channel |-> r.channel,
         start |-> s, death |-> d, intim |-> i, fraud |-> r.fraud,
         p2d |-> dt_days(d, s), d2i |-> dt_days(i, d)]

\* df.to_dict('records') as the store component hands it to the next callback.
StoredRow(r) ==
    [r EXCEPT !.start = to_json(r.start), !.death = to_json(r.death),
              !.intim = to_json(r.intim)]

\* The columns parse_contents reads, in the order it reads them: the first one
\* missing raises KeyError(column).
parse_reads ==
    <<"POLICYRISKCOMMENCEMENTDATE", "Date of Death", "INTIMATIONDATE",
      "CORRESPONDENCESTATE", "CHANNEL", "Fraud Category">>

ParseFailed(alert) ==
    [data |-> None, alert |-> alert, state_options |-> {},
     channel_options |-> {}, style |-> "none"]

parse_contents(c) ==
    IF c = None THEN ParseFailed(Null)
    ELSE LET f == c[1]
             unread == SelectSeq(parse_reads, LAMBDA col : col \notin f.cols)
         IN
    IF f.filename # "xls" \/ ~f.readable THEN ParseFailed("Error processing file")
    ELSE IF unread # <<>> THEN ParseFailed(Head(unread))   \* str(KeyError)
    ELSE LET rows == [k \in 1..Len(f.rows) |-> StoredRow(ParsedRow(f.rows[k]))] IN
         [data |-> Some([cols |-> f.cols \cup {"Policy_to_Death_Days",
                                               "Death_to_Intimation_Days"},
                         rows |-> rows]),
          alert |-> "Data loaded successfully!",
          state_options |-> {rows[k].state : k \in 1..Len(rows)} \ {Null},
          channel_options |-> {rows[k].channel : k \in 1..Len(rows)} \ {Null},
          style |-> "block"]

\* `if states and len(states) > 0`: a multi-select value restricts.
Selected(v) == v # None /\ v[1] # {}

\* Series.isin(values) of a string column: NaN is in no list.
isin(x, v) == x # Null /\ x \in v[1]

\* An object column holding a str: ordering it against a Timestamp raises
\* TypeError ('>=' not supported between instances of 'str' and 'Timestamp').
HasStr(rows, col) ==
    \E k \in 1..Len(rows) : rows[k][col] # None /\ rows[k][col][1] = "iso"

\* column >= Timestamp(d), column <= Timestamp(d), element-wise; null is False.
GeDate(cell, d) == cell # None /\ cell[2] >= d
LeDate(cell, d) == cell # None /\ cell[2] <= d

ResetState ==
    [states |-> None, channels |-> None, start_date |-> None, end_date |-> None]

Raised == [raised |-> TRUE, data |-> None, state |-> None]
Returned(data, state) == [raised |-> FALSE, data |-> data, state |-> state]

\* The state and channel steps of filter_data.
ByCategory_bad(rows, states, channels) ==
    SelectSeq(SelectSeq(rows, LAMBDA r : states # None => isin(r.state, states)),
              LAMBDA r : Selected(channels) => isin(r.channel, channels))

ByCategory(rows, states, channels) ==
    SelectSeq(SelectSeq(rows, LAMBDA r : Selected(states) => isin(r.state, states)),
              LAMBDA r : Selected(channels) => isin(r.channel, channels))

\* filter_data(data, apply_clicks, reset_clicks, states, channels, start_date,
\* end_date) triggered by the input trig.
filter_data(data, trig, states, channels, start, end) ==
    IF trig = "reset-filters" THEN Returned(data, Some(ResetState))
    ELSE IF Falsy(data) THEN Returned(None, None)
    ELSE LET fstate == [states |-> states, channels |-> channels,
                        start_date |-> start, end_date |-> end]
             df2 == ByCategory(data[1].rows, states, channels)
             df3 == IF start # None
                    THEN SelectSeq(df2, LAMBDA r : GeDate(r.start, start[1]))
                    ELSE df2
             df4 == IF end # None
                    THEN SelectSeq(df3, LAMBDA r : LeDate(r.start, end[1]))
                    ELSE df3
         IN  IF start # None /\ HasStr(df2, "start") THEN Raised
             ELSE IF end # None /\ HasStr(df3, "start") THEN Raised
             ELSE Returned(Some([cols |-> data[1].cols, rows |-> df4]),
                           Some(fstate))

\* df[col].mean() rounded to one decimal, in tenths; NaN when no value is left.
RECURSIVE SumCells(_)
SumCells(cells) ==
    IF cells = <<>> THEN 0
    ELSE (IF Head(cells) = None THEN 0 ELSE Head(cells)[1]) + SumCells(Tail(cells))

Mean10(cells) ==
    LET n == Cardinality({k \in 1..Len(cells) : cells[k] # None}) IN
    IF n = 0 THEN None ELSE Some(RoundHalfEven(10 * SumCells(cells), n))

\* update_kpi_metrics(filtered_data)
update_kpi_metrics(data) ==
    IF Falsy(data) THEN Returned(None, None)
    ELSE LET rows == data[1].rows
             total_cases == Len(rows)
             fraud_cases == Cardinality({k \in 1..Len(rows) : rows[k].fraud # Null})
         IN  Returned(Some([total_cases |-> total_cases,
                            fraud_cases |-> fraud_cases,
                            fraud_rate |-> IF total_cases > 0
                                           THEN Rate10(fraud_cases, total_cases)
                                           ELSE 0,
                            avg_policy_to_death |-> Mean10(Column(rows, "p2d"))]),
                      None)

\* The columns update_all_visualizations reads besides those parse_contents
\* guarantees.
charts_read ==
    {"CORRESPONDENCECITY", "CORRESPONDENCEPOSTCODE", "Dummy Policy No"}

\* strftime('%Y-%m-%d') of a date column converted back with pd.to_datetime.
strftime(cell) ==
    IF to_datetime(cell) = None THEN None ELSE <<"ymd", to_datetime(cell)[2]>>

TableRow(r) ==
    [pol |-> r.pol, state |-> r.state, channel |-> r.channel,
     start |-> strftime(r.start), death |-> strftime(r.death),
     intim |-> strftime(r.intim), p2d |-> r.p2d, fraud |-> r.fraud]

NoDataCharts == [figures |-> "No data available", table |-> <<>>]

\* update_all_visualizations(filtered_data): the seven figures and the table.
update_all_visualizations(data) ==
    IF Falsy(data) THEN Returned(Some(NoDataCharts), None)
    ELSE IF ~(charts_read \subseteq data[1].cols) THEN Raised   \* KeyError
    ELSE Returned(Some([figures |-> "drawn",
                        table |-> [k \in 1..Len(data[1].rows) |->
                                      TableRow(data[1].rows[k])]]),
                  None)

\* ---- callbacks as Dash runs them
\* filter_data runs; when it raises, no output is written and nothing follows.
FilterData ==
    /\ "filter_data" \in pending
    /\ LET r == filter_data(processed_data, trigger, state_filter, channel_filter,
                            start_date, end_date)
       IN  IF r.raised
           THEN /\ cb_error' = "filter_data"
                /\ pending' = pending \ {"filter_data"}
                /\ UNCHANGED <<filtered_data, filter_state>>
           ELSE /\ cb_error' = Null
                /\ filtered_data' = r.data
                /\ filter_state' = r.state
                /\ pending' = (pending \ {"filter_data"})
                              \cup {"update_kpi_metrics", "update_all_visualizations"}
    /\ UNCHANGED <<widgetVars, sharedVars, processed_data, upload_alert,
                   dashboard_content, kpi_metrics, charts, trigger>>
    /\ UNCHANGED <<sliderVars, aggVars, flightVars,
                   chartVars>>

ResetFilters_bad ==
    /\ "reset_filters" \in pending
    /\ pending' = pending \ {"reset_filters"}
    /\ UNCHANGED <<widgetVars, sharedVars, processed_data, upload_alert,
                   dashboard_content, filtered_data, filter_state, kpi_metrics,
                   charts, trigger, cb_error>>
    /\ UNCHANGED <<sliderVars, aggVars, flightVars,
                   chartVars>>

\* reset_filters(n_clicks) clears the four widgets.
ResetFilters ==
    /\ "reset_filters" \in pending
    /\ state_filter' = None
    /\ channel_filter' = None
    /\ start_date' = None
    /\ end_date' = None
    /\ pending' = pending \ {"reset_filters"}
    /\ UNCHANGED <<sharedVars, processed_data, upload_alert, dashboard_content,
                   filtered_data, filter_state, kpi_metrics, charts, trigger,
                   cb_error>>
    /\ UNCHANGED <<sliderVars, aggVars, flightVars,
                   chartVars>>

UpdateKpiMetrics ==
    /\ "update_kpi_metrics" \in pending
    /\ "filter_data" \notin pending
    /\ kpi_metrics' = update_kpi_metrics(filtered_data).data
    /\ pending' = pending \ {"update_kpi_metrics"}
    /\ UNCHANGED <<widgetVars, sharedVars, processed_data, upload_alert,
                   dashboard_content, filtered_data, filter_state, charts, trigger,
                   cb_error>>
    /\ UNCHANGED <<sliderVars, aggVars, flightVars,
                   chartVars>>

UpdateAllVisualizations ==
    /\ "update_all_visualizations" \in pending
    /\ "filter_data" \notin pending
    /\ LET r == update_all_visualizations(filtered_data) IN
       IF r.raised
       THEN cb_error' = "update_all_visualizations" /\ UNCHANGED charts
       ELSE charts' = r.data /\ UNCHANGED cb_error
    /\ pending' = pending \ {"update_all_visualizations"}
    /\ UNCHANGED <<widgetVars, sharedVars, processed_data, upload_alert,
                   dashboard_content, filtered_data, filter_state, kpi_metrics,
                   trigger>>
    /\ UNCHANGED <<sliderVars, aggVars, flightVars,
                   chartVars>>

\* ---- the user
\* A click on Apply Filters, with the widgets as they are.
ApplyClick ==
    /\ dashboard_content = "block"
    /\ pending = {}
    /\ pending' = {"filter_data"}
    /\ trigger' = "apply-filters"
    /\ UNCHANGED <<widgetVars, sharedVars, processed_data, upload_alert,
                   dashboard_content, filtered_data, filter_state, kpi_metrics,
                   charts, cb_error>>
    /\ UNCHANGED <<sliderVars, aggVars, flightVars,
                   chartVars>>

\* A click on Reset: an input of filter_data and of reset_filters.
ResetClick ==
    /\ dashboard_content = "block"
    /\ pending = {}
    /\ pending' = {"filter_data", "reset_filters"}
    /\ trigger' = "reset-filters"
    /\ UNCHANGED <<widgetVars, sharedVars, processed_data, upload_alert,
                   dashboard_content, filtered_data, filter_state, kpi_metrics,
                   charts, cb_error>>
    /\ UNCHANGED <<sliderVars, aggVars, flightVars,
                   chartVars>>

\* The first upload into a freshly served page: parse_contents runs on it.
Upload(f) ==
    /\ contents = None
    /\ pending = {}
    /\ contents' = Some(f)
    /\ LET r == parse_contents(Some(f)) IN
        /\ processed_data' = r.data
        /\ upload_alert' = r.alert
        /\ state_options' = r.state_options
        /\ channel_options' = r.channel_options
        /\ dashboard_content' = r.style
    /\ pending' = {"filter_data"}
    /\ trigger' = "processed-data"
    /\ UNCHANGED <<widgetVars, global_df, upload_status, main_content, date_allowed,
                   metrics, pending_metrics, memo, filtered_data, filter_state,
                   kpi_metrics, charts, cb_error>>
    /\ UNCHANGED <<sliderVars, aggVars, flightVars,
                   chartVars>>

\* ---- uploaded files
ExcelFile(cols, rows) ==
    [filename |-> "xls", readable |-> TRUE, cols |-> cols, rows |-> rows]

\* Rows that differ in the categories and the policy-start date.
FilterRawRows ==
    {[pol |-> "P1", state |-> v[1], channel |-> v[2], start |-> v[3],
      death |-> RawDate(MaxDay), intim |-> RawDate(MaxDay), fraud |-> v[4]] :
        v \in {<<"MH", "Agent", RawDate(0), "Fraudulent">>,
               <<"MH", "Direct", RawDate(MaxDay), Null>>,
               <<"KA", "Agent", None, "Suspicious">>,
               <<Null, "Direct", RawDate(0), Null>>}}

FilterFiles == {ExcelFile(Columns, rows) : rows \in SeqsUpTo(FilterRawRows, MaxRows)}

\* Rows that differ in the three date cells.
RawDateCells == {RawDate(0), RawDate(MaxDay), None, RawText}

IngestRawRows ==
    {[pol |-> "P1", state |-> "MH", channel |-> "Agent", start |-> st,
      death |-> de, intim |-> it, fraud |-> "Fraudulent"] :
        st \in RawDateCells, de \in RawDateCells, it \in RawDateCells}

IngestFiles ==
    {ExcelFile(Columns, rows) : rows \in SeqsUpTo(IngestRawRows, MaxIngestRows)}
    \cup {ExcelFile(Columns \ {c}, <<>>) : c \in Columns}
    \cup {[filename |-> "csv", readable |-> TRUE, cols |-> Columns, rows |-> <<>>],
          [filename |-> "xls", readable |-> FALSE, cols |-> Columns, rows |-> <<>>]}

\* ---- specifications
\* The page as first served: nothing uploaded, nothing shown.
InitStore ==
    /\ contents = None
    /\ channel_options = {}
    /\ state_options = {}
    /\ state_filter = None
    /\ channel_filter = None
    /\ start_date = None
    /\ end_date = None
    /\ SharedUnused
    /\ StoreUnused
    /\ SliderUnused
    /\ AggUnused
    /\ FlightUnused
    /\ ChartUnused

\* Ingestion: any file is uploaded into the fresh page and the callbacks run.
NextIngest ==
    \/ \E f \in IngestFiles : Upload(f)
    \/ FilterData
    \/ UpdateKpiMetrics
    \/ UpdateAllVisualizations

SpecIngest == InitStore /\ [][NextIngest]_vars

\* Widget values the user can have set: a multi-select holds None (untouched),
\* or a list of its options; the date picker holds None or a day, the end not
\* before the start.
MultiValues(options) == {None} \cup {Some(v) : v \in SUBSET options}
DateValues == {None} \cup {Some(d) : d \in Days}

\* Filtering: a file was uploaded into the fresh page, the callbacks ran on it,
\* and the user has set the filter widgets.
InitFilter ==
    \E f \in FilterFiles :
        LET p == parse_contents(Some(f))
            r == filter_data(p.data, "processed-data", None, None, None, None)
        IN  /\ contents = Some(f)
            /\ processed_data = p.data
            /\ upload_alert = p.alert
            /\ state_options = p.state_options
            /\ channel_options = p.channel_options
            /\ dashboard_content = p.style
            /\ filtered_data = r.data
            /\ filter_state = r.state
            /\ kpi_metrics = update_kpi_metrics(r.data).data
            /\ charts = update_all_visualizations(r.data).data
            /\ pending = {}
            /\ trigger = "processed-data"
            /\ cb_error = Null
            /\ state_filter \in MultiValues(p.state_options)
            /\ channel_filter \in MultiValues(p.channel_options)
            /\ start_date \in DateValues
            /\ end_date \in DateValues
            /\ (start_date # None /\ end_date # None) => start_date[1] <= end_date[1]
            /\ SharedUnused
            /\ SliderUnused
            /\ AggUnused
            /\ FlightUnused
            /\ ChartUnused
    /\ FlightUnused
    /\ ChartUnused

Next ==
    \/ ApplyClick
    \/ ResetClick
    \/ FilterData
    \/ ResetFilters
    \/ UpdateKpiMetrics
    \/ UpdateAllVisualizations

Spec == InitFilter /\ [][Next]_vars

\* ---- requests in flight
\* The user acts while callbacks are still running.  A request carries the
\* inputs and states of the moment it was made; the browser keeps one running
\* request per callback, a newer request of the same callback replacing it.
Submit_bad(data) ==
    submitted' = Some([data |-> data, states |-> None, channels |-> None,
                       start |-> None, end |-> None])

Submit(data) ==
    submitted' = Some([data |-> data, states |-> state_filter,
                       channels |-> channel_filter, start |-> start_date,
                       end |-> end_date])

\* Two files: one with a dated record of one state and an undated record of
\* the other, one with a single dated record.
FlightFiles ==
    {ExcelFile(Columns, rows) :
        rows \in {SelectSeq(<<r1, r2>>, LAMBDA r : r.state = "KA" \/ r.start = RawDate(0)) :
                      r1 \in {r \in FilterRawRows : r.state = "MH"},
                      r2 \in {r \in FilterRawRows : r.state = "KA"}}}

\* A file is uploaded: parse_contents runs, processed-data changes and
\* filter_data is requested.
FlightUpload(f) ==
    /\ Some(f) # contents
    /\ contents' = Some(f)
    /\ LET r == parse_contents(Some(f)) IN
        /\ processed_data' = r.data
        /\ upload_alert' = r.alert
        /\ state_options' = r.state_options
        /\ channel_options' = r.channel_options
        /\ dashboard_content' = r.style
        /\ Submit(r.data)
    /\ pending' = pending \cup {"filter_data"}
    /\ trigger' = "processed-data"
    /\ UNCHANGED <<widgetVars, global_df, upload_status, main_content, date_allowed,
                   metrics, pending_metrics, memo, filtered_data, filter_state,
                   kpi_metrics, charts, cb_error>>
    /\ UNCHANGED <<sliderVars, aggVars, chartVars>>

\* The user changes the state dropdown or the date range; nothing is requested.
FlightSetState(v) ==
    /\ dashboard_content = "block"
    /\ v \subseteq state_options
    /\ Some(v) # state_filter
    /\ state_filter' = Some(v)
    /\ UNCHANGED <<channel_filter, start_date, end_date, sharedVars, storeVars,
                   sliderVars, aggVars, flightVars, chartVars>>

FlightSetDates(s, e) ==
    /\ dashboard_content = "block"
    /\ s <= e
    /\ <<Some(s), Some(e)>> # <<start_date, end_date>>
    /\ start_date' = Some(s)
    /\ end_date' = Some(e)
    /\ UNCHANGED <<state_filter, channel_filter, sharedVars, storeVars,
                   sliderVars, aggVars, flightVars, chartVars>>

FlightApply ==
    /\ dashboard_content = "block"
    /\ pending' = pending \cup {"filter_data"}
    /\ trigger' = "apply-filters"
    /\ Submit(processed_data)
    /\ UNCHANGED <<widgetVars, sharedVars, processed_data, upload_alert,
                   dashboard_content, filtered_data, filter_state, kpi_metrics,
                   charts, cb_error>>
    /\ UNCHANGED <<sliderVars, aggVars, chartVars>>

FlightReset ==
    /\ dashboard_content = "block"
    /\ pending' = pending \cup {"filter_data", "reset_filters"}
    /\ trigger' = "reset-filters"
    /\ Submit(processed_data)
    /\ UNCHANGED <<widgetVars, sharedVars, processed_data, upload_alert,
                   dashboard_content, filtered_data, filter_state, kpi_metrics,
                   charts, cb_error>>
    /\ UNCHANGED <<sliderVars, aggVars, chartVars>>

\* filter_data answers the latest request.
FlightFilterData ==
    /\ "filter_data" \in pending
    /\ LET a == submitted[1]
           r == filter_data(a.data, trigger, a.states, a.channels, a.start, a.end)
       IN  IF r.raised
           THEN /\ cb_error' = "filter_data"
                /\ pending' = pending \ {"filter_data"}
                /\ UNCHANGED <<filtered_data, filter_state>>
           ELSE /\ cb_error' = Null
                /\ filtered_data' = r.data
                /\ filter_state' = r.state
                /\ pending' = (pending \ {"filter_data"})
                              \cup {"update_kpi_metrics", "update_all_visualizations"}
    /\ UNCHANGED <<widgetVars, sharedVars, processed_data, upload_alert,
                   dashboard_content, kpi_metrics, charts, trigger>>
    /\ UNCHANGED <<sliderVars, aggVars, flightVars, chartVars>>

NextFlight ==
    \/ \E f \in FlightFiles : FlightUpload(f)
    \/ \E st \in States : FlightSetState({st})
    \/ FlightSetDates(0, MaxDay)
    \/ FlightApply
    \/ FlightReset
    \/ FlightFilterData
    \/ ResetFilters
    \/ UpdateKpiMetrics
    \/ UpdateAllVisualizations

InitFlight ==
    /\ contents = None
    /\ channel_options = {}
    /\ state_options = {}
    /\ state_filter = None
    /\ channel_filter = None
    /\ start_date = None
    /\ end_date = None
    /\ SharedUnused
    /\ StoreUnused
    /\ SliderUnused
    /\ AggUnused
    /\ FlightUnused
    /\ ChartUnused

SpecFlight == InitFlight /\ [][NextFlight]_vars

\* ============================================================ trydash.py
\* processed-data is filled by parse_contents; Apply Filters runs update_graphs
\* on it with the state filter, the city filter and the age slider.
Cities == {"Pune", "Mysuru"}
Ages == {30, 70}
slider_full == <<0, 100>>
SliderValues == {slider_full, <<0, 50>>}

\* The columns this parse_contents reads, in order.
slider_parse_reads ==
    <<"POLICYRISKCOMMENCEMENTDATE", "Date of Death", "INTIMATIONDATE",
      "CORRESPONDENCESTATE", "CORRESPONDENCECITY">>

SliderParseFailed(alert) ==
    [data |-> None, alert |-> alert, state_options |-> {}, city_options |-> {},
     value |-> Some(slider_full), style |-> "none"]

SliderStoredRow(r) ==
    [pol |-> r.pol, state |-> r.state, city |-> r.city, channel |-> r.channel,
     age |-> r.age, fraud |-> r.fraud,
     start |-> to_json(to_datetime(r.start)),
     death |-> to_json(to_datetime(r.death)),
     intim |-> to_json(to_datetime(r.intim)),
     p2d |-> dt_days(to_datetime(r.death), to_datetime(r.start)),
     d2i |-> dt_days(to_datetime(r.intim), to_datetime(r.death))]

slider_parse_contents(c) ==
    IF c = None THEN SliderParseFailed(Null)
    ELSE LET f == c[1]
             unread == SelectSeq(slider_parse_reads, LAMBDA col : col \notin f.cols)
         IN
    IF f.filename # "xls" \/ ~f.readable THEN SliderParseFailed("Error processing file")
    ELSE IF unread # <<>> THEN SliderParseFailed(Head(unread))
    ELSE LET rows == [k \in 1..Len(f.rows) |-> SliderStoredRow(f.rows[k])] IN
         [data |-> Some([cols |-> f.cols \cup {"Policy_to_Death_Days",
                                               "Death_to_Intimation_Days"},
                         rows |-> rows]),
          alert |-> "Successfully loaded data",
          state_options |-> {rows[k].state : k \in 1..Len(rows)} \ {Null},
          city_options |-> {rows[k].city : k \in 1..Len(rows)} \ {Null},
          value |-> Some(slider_full),
          style |-> "block"]

\* The filtering steps of update_graphs; .rows is filtered_df, .raised the
\* KeyError of the age step on a table without an AGE column.
slider_filtered(data, states, cities, age) ==
    LET df1 == SelectSeq(data[1].rows,
                         LAMBDA r : Selected(states) => isin(r.state, states))
        df2 == SelectSeq(df1, LAMBDA r : Selected(cities) => isin(r.city, cities))
    IN  IF age = None THEN [raised |-> FALSE, rows |-> df2]
        ELSE IF "AGE" \notin data[1].cols THEN [raised |-> TRUE, rows |-> df2]
        ELSE [raised |-> FALSE,
              rows |-> SelectSeq(df2, LAMBDA r : r.age >= age[1][1]
                                                 /\ r.age <= age[1][2])]

\* update_graphs(n_clicks, data, states, cities, age_range): the ten figures.
\* Past the filter it groups by Month_Year, which parse_contents never adds,
\* and builds the radar with go.Figure() although the module imports no go.
update_graphs(data, states, cities, age) ==
    IF Falsy(data) THEN Returned(Some(NoDataCharts), None)
    ELSE IF slider_filtered(data, states, cities, age).raised THEN Raised  \* KeyError
    ELSE IF "Month_Year" \notin data[1].cols THEN Raised                   \* KeyError
    ELSE Raised                                                            \* NameError

SliderUpload(f) ==
    /\ contents = None
    /\ pending = {}
    /\ contents' = Some(f)
    /\ LET r == slider_parse_contents(Some(f)) IN
        /\ processed_data' = r.data
        /\ upload_alert' = r.alert
        /\ state_options' = r.state_options
        /\ city_options' = r.city_options
        /\ age_range' = r.value
        /\ dashboard_content' = r.style
    /\ UNCHANGED <<widgetVars, global_df, upload_status, main_content, date_allowed,
                   channel_options, metrics, pending_metrics, memo, filtered_data,
                   filter_state, kpi_metrics, charts, pending, trigger, cb_error,
                   city_filter>>
    /\ UNCHANGED <<aggVars, flightVars, chartVars>>

\* The user sets one of the three filter widgets.
SetStateFilter(v) ==
    /\ pending = {}
    /\ v \in MultiValues(state_options) \ {None}
    /\ state_filter' = v
    /\ UNCHANGED <<channel_filter, start_date, end_date, sharedVars, storeVars,
                   sliderVars>>
    /\ UNCHANGED <<aggVars, flightVars, chartVars>>

SetCityFilter(v) ==
    /\ pending = {}
    /\ v \in MultiValues(city_options) \ {None}
    /\ city_filter' = v
    /\ UNCHANGED <<widgetVars, sharedVars, storeVars, city_options, age_range>>
    /\ UNCHANGED <<aggVars, flightVars, chartVars>>

SetAgeRange(v) ==
    /\ pending = {}
    /\ age_range' = Some(v)
    /\ UNCHANGED <<widgetVars, sharedVars, storeVars, city_filter, city_options>>
    /\ UNCHANGED <<aggVars, flightVars, chartVars>>

SliderApplyClick ==
    /\ pending = {}
    /\ pending' = {"update_graphs"}
    /\ trigger' = "apply-filters"
    /\ UNCHANGED <<widgetVars, sharedVars, sliderVars, processed_data, upload_alert,
                   dashboard_content, filtered_data, filter_state, kpi_metrics,
                   charts, cb_error>>
    /\ UNCHANGED <<aggVars, flightVars, chartVars>>

\* update_graphs runs; when it raises no figure is written.
UpdateGraphs ==
    /\ "update_graphs" \in pending
    /\ LET r == update_graphs(processed_data, state_filter, city_filter, age_range) IN
       IF r.raised
       THEN cb_error' = "update_graphs" /\ UNCHANGED charts
       ELSE cb_error' = Null /\ charts' = r.data
    /\ pending' = pending \ {"update_graphs"}
    /\ UNCHANGED <<widgetVars, sharedVars, sliderVars, processed_data, upload_alert,
                   dashboard_content, filtered_data, filter_state, kpi_metrics,
                   trigger>>
    /\ UNCHANGED <<aggVars, flightVars, chartVars>>

SliderRawRows ==
    {[pol |-> "P1", state |-> sc[1], city |-> sc[2], channel |-> "Agent", age |-> a,
      start |-> RawDate(0), death |-> RawDate(1), intim |-> RawDate(MaxDay),
      fraud |-> "Fraudulent"] :
        sc \in {<<"MH", "Pune">>, <<"KA", "Mysuru">>}, a \in Ages}

SliderFiles ==
    {ExcelFile(cols, rows) :
        cols \in {Columns, Columns \cup {"AGE", "Month_Year"}},
        rows \in SeqsUpTo(SliderRawRows, MaxSliderRows)}
    \cup {ExcelFile(Columns \ {"CORRESPONDENCECITY"}, <<>>)}

\* The page as first served: the slider at its layout value.
InitSlider ==
    /\ contents = None
    /\ channel_options = {}
    /\ state_options = {}
    /\ state_filter = None
    /\ channel_filter = None
    /\ start_date = None
    /\ end_date = None
    /\ city_filter = None
    /\ city_options = {}
    /\ age_range = Some(slider_full)
    /\ SharedUnused
    /\ StoreUnused
    /\ AggUnused
    /\ FlightUnused
    /\ ChartUnused

NextSlider ==
    \/ \E f \in SliderFiles : SliderUpload(f)
    \/ \E v \in MultiValues(States) : SetStateFilter(v)
    \/ \E v \in MultiValues(Cities) : SetCityFilter(v)
    \/ \E v \in SliderValues : SetAgeRange(v)
    \/ SliderApplyClick
    \/ UpdateGraphs

SpecSlider == InitSlider /\ [][NextSlider]_vars

\* ============================================================ thi.py
\* A stateless dashboard: update_filters and update_metrics parse the uploaded
\* CSV again on every run.  The dropdowns hold 'All' or an option and are not
\* clearable; the product filter stays at 'All' (no 'Product Type' column in
\* the tables modelled).
Percent2(hundredths) == <<"%.2f%", hundredths>>

\* parse_contents(contents, filename): None unless the file is a CSV.
csv_parse_contents(c) ==
    IF c[1].filename = "csv" /\ c[1].readable
    THEN Some([cols |-> c[1].cols, rows |-> c[1].rows])
    ELSE None

\* df.dropna(subset=['POLICYRISKCOMMENCEMENTDATE']) after to_datetime.
dated(rows) ==
    SelectSeq([k \in 1..Len(rows) |->
                  [rows[k] EXCEPT !.start = to_datetime(rows[k].start)]],
              LAMBDA r : r.start # None)

\* update_filters(contents, filename)
csv_update_filters(c) ==
    LET none == [min_date_allowed |-> None, max_date_allowed |-> None,
                 start |-> None, end |-> None,
                 channel_options |-> {"All"}, state_options |-> {"All"}]
    IN
    IF c = None \/ csv_parse_contents(c) = None THEN none
    ELSE LET df == csv_parse_contents(c)[1]
             rows == IF "POLICYRISKCOMMENCEMENTDATE" \in df.cols
                     THEN dated(df.rows) ELSE df.rows
             min_date == IF "POLICYRISKCOMMENCEMENTDATE" \in df.cols
                         THEN ColMin(Column(rows, "start")) ELSE None
             max_date == IF "POLICYRISKCOMMENCEMENTDATE" \in df.cols
                         THEN ColMax(Column(rows, "start")) ELSE None
         IN  [min_date_allowed |-> min_date, max_date_allowed |-> max_date,
              start |-> min_date, end |-> max_date,
              channel_options |->
                  {"All"} \cup (IF "CHANNEL" \in df.cols
                                THEN {rows[k].channel : k \in 1..Len(rows)} \ {Null}
                                ELSE {}),
              state_options |->
                  {"All"} \cup (IF "CORRESPONDENCESTATE" \in df.cols
                                THEN {rows[k].state : k \in 1..Len(rows)} \ {Null}
                                ELSE {})]

\* ~isin(['No Fraud', 'NA', '', pd.NA, None]): a NaN cell equals none of them.
fraud_mask(category) == category \notin {"No Fraud", "NA", ""}

CsvMessage(text) ==
    [total_policies |-> text, fraud_cases |-> text, fraud_rate |-> text,
     filtered_df |-> None]

\* update_metrics(contents, start_date, end_date, channel, state, product,
\* filename)
csv_update_metrics(c, start, end, channel, state) ==
    IF c = None THEN CsvMessage("Upload data")
    ELSE IF csv_parse_contents(c) = None THEN CsvMessage("Invalid file")
    ELSE LET df == csv_parse_contents(c)[1]
             df1 == IF "POLICYRISKCOMMENCEMENTDATE" \in df.cols
                    THEN dated(df.rows) ELSE df.rows
             df2 == IF "POLICYRISKCOMMENCEMENTDATE" \in df.cols
                       /\ start # None /\ end # None
                    THEN SelectSeq(df1, LAMBDA r : r.start[2] >= start[1]
                                                   /\ r.start[2] <= end[1])
                    ELSE df1
             df3 == IF "CHANNEL" \in df.cols /\ channel # "All"
                    THEN SelectSeq(df2, LAMBDA r : r.channel = channel) ELSE df2
             filtered == IF "CORRESPONDENCESTATE" \in df.cols /\ state # "All"
                         THEN SelectSeq(df3, LAMBDA r : r.state = state) ELSE df3
             total_policies == nunique(Column(filtered, "pol"))
             fraud_cases ==
                 Cardinality({k \in 1..Len(filtered) : fraud_mask(filtered[k].fraud)})
         IN
         IF "Dummy Policy No" \notin df.cols
         THEN [CsvMessage("N/A") EXCEPT !.total_policies = "No policy data"]
         ELSE IF "Fraud Category" \notin df.cols
         THEN [total_policies |-> total_policies, fraud_cases |-> "No fraud data",
               fraud_rate |-> "N/A", filtered_df |-> Some(filtered)]
         ELSE [total_policies |-> total_policies, fraud_cases |-> fraud_cases,
               fraud_rate |-> IF total_policies > 0
                              THEN Percent2(RoundHalfEven(10000 * fraud_cases,
                                                          total_policies))
                              ELSE Percent2(0),
               filtered_df |-> Some(filtered)]

\* ---- uploaded files
CsvRawRows ==
    {[pol |-> v[1], state |-> v[2], channel |-> v[3], start |-> v[4],
      death |-> RawDate(MaxDay), intim |-> RawDate(MaxDay), fraud |-> v[5]] :
        v \in {<<"P1", "MH", "Agent", RawDate(0), "Fraudulent">>,
               <<"P1", "MH", "Agent", RawDate(MaxDay), "Fraudulent">>,
               <<"P2", "KA", "Direct", RawDate(0), "No Fraud">>,
               <<Null, "MH", "Agent", RawDate(0), "Fraudulent">>,
               <<"P2", "KA", "Direct", None, Null>>}}

CsvFiles ==
    {CsvFile(Columns, rows) : rows \in SeqsUpTo(CsvRawRows, MaxCsvRows)}
    \cup {CsvFile(Columns \ {c}, <<>>) : c \in {"Dummy Policy No", "Fraud Category"}}
    \cup {[filename |-> "xls", readable |-> TRUE, cols |-> Columns, rows |-> <<>>]}

\* ---- actions
\* A file is dropped on the upload component: contents is an input of both
\* callbacks.
CsvUpload(f) ==
    /\ pending = {}
    /\ Some(f) # contents
    /\ contents' = Some(f)
    /\ pending' = {"update_filters", "update_metrics"}
    /\ UNCHANGED <<widgetVars, global_df, upload_status, main_content, date_allowed,
                   channel_options, state_options, metrics, pending_metrics, memo,
                   processed_data, upload_alert, dashboard_content, filtered_data,
                   filter_state, kpi_metrics, charts, trigger, cb_error,
                   sliderVars, aggVars, flightVars,
                   chartVars>>

CsvUpdateFilters ==
    /\ "update_filters" \in pending
    /\ LET r == csv_update_filters(contents) IN
        /\ date_allowed' = <<r.min_date_allowed, r.max_date_allowed>>
        /\ start_date' = r.start
        /\ end_date' = r.end
        /\ channel_options' = r.channel_options
        /\ state_options' = r.state_options
    /\ pending' = (pending \ {"update_filters"}) \cup {"update_metrics"}
    /\ UNCHANGED <<state_filter, channel_filter, global_df, contents, upload_status,
                   main_content, metrics, pending_metrics, memo, processed_data,
                   upload_alert, dashboard_content, filtered_data, filter_state,
                   kpi_metrics, charts, trigger, cb_error, sliderVars, aggVars, flightVars,
                   chartVars>>

\* update_metrics waits for update_filters, whose outputs are its inputs.
CsvUpdateMetrics ==
    /\ pending = {"update_metrics"}
    /\ metrics' = csv_update_metrics(contents, start_date, end_date,
                                     channel_filter, state_filter)
    /\ pending' = {}
    /\ UNCHANGED <<widgetVars, global_df, contents, upload_status, main_content,
                   date_allowed, channel_options, state_options, pending_metrics,
                   memo, processed_data, upload_alert, dashboard_content,
                   filtered_data, filter_state, kpi_metrics, charts, trigger,
                   cb_error, sliderVars, aggVars, flightVars,
                   chartVars>>

\* The user picks an option of a dropdown or a day of the date picker.
CsvSetChannel(v) ==
    /\ pending = {}
    /\ v \in channel_options
    /\ v # channel_filter
    /\ channel_filter' = v
    /\ pending' = {"update_metrics"}
    /\ UNCHANGED <<state_filter, start_date, end_date, sharedVars, processed_data,
                   upload_alert, dashboard_content, filtered_data, filter_state,
                   kpi_metrics, charts, trigger, cb_error, sliderVars, aggVars, flightVars,
                   chartVars>>

CsvSetState(v) ==
    /\ pending = {}
    /\ v \in state_options
    /\ v # state_filter
    /\ state_filter' = v
    /\ pending' = {"update_metrics"}
    /\ UNCHANGED <<channel_filter, start_date, end_date, sharedVars, processed_data,
                   upload_alert, dashboard_content, filtered_data, filter_state,
                   kpi_metrics, charts, trigger, cb_error, sliderVars, aggVars, flightVars,
                   chartVars>>

CsvSetDates(s, e) ==
    /\ pending = {}
    /\ date_allowed[1] # None
    /\ date_allowed[1][1] <= s /\ s <= e /\ e <= date_allowed[2][1]
    /\ <<Some(s), Some(e)>> # <<start_date, end_date>>
    /\ start_date' = Some(s)
    /\ end_date' = Some(e)
    /\ pending' = {"update_metrics"}
    /\ UNCHANGED <<state_filter, channel_filter, sharedVars, processed_data,
                   upload_alert, dashboard_content, filtered_data, filter_state,
                   kpi_metrics, charts, trigger, cb_error, sliderVars, aggVars, flightVars,
                   chartVars>>

\* The page as first served: both callbacks ran without contents.
InitCsv ==
    /\ contents = None
    /\ date_allowed = <<None, None>>
    /\ start_date = None
    /\ end_date = None
    /\ channel_options = {"All"}
    /\ state_options = {"All"}
    /\ channel_filter = "All"
    /\ state_filter = "All"
    /\ metrics = csv_update_metrics(None, None, None, "All", "All")
    /\ global_df = None
    /\ upload_status = Null
    /\ main_content = "none"
    /\ pending_metrics = FALSE
    /\ memo = None
    /\ StoreUnused
    /\ SliderUnused
    /\ AggUnused
    /\ FlightUnused
    /\ ChartUnused

NextCsv ==
    \/ \E f \in CsvFiles : CsvUpload(f)
    \/ CsvUpdateFilters
    \/ CsvUpdateMetrics
    \/ \E v \in {"All"} \cup Channels : CsvSetChannel(v)
    \/ \E v \in {"All"} \cup States : CsvSetState(v)
    \/ \E s \in Days, e \in Days : CsvSetDates(s, e)

SpecCsv == InitCsv /\ [][NextCsv]_vars

\* ============================================================ aggregations
\* The rankings the chart callbacks compute.  A table of group counts is a
\* sequence of [key, count] records with distinct keys, in the order the
\* grouping produced them (groupby: by key; value_counts: by count).
TopN == 10

GroupCounts == {1, 2}

Tables ==
    UNION {{[i \in 1..k |-> [key |-> i, count |-> c[i]]] : c \in [1..k -> GroupCounts]} :
           k \in 0..MaxGroups}

\* Stable sorts of a table by count (mergesort, and numpy's quicksort up to 16
\* rows, keep rows of equal count in their order).
RECURSIVE InsertBy(_, _, _)
InsertBy(row, sorted, sign) ==
    IF sorted = <<>> THEN <<row>>
    ELSE IF sign * row.count < sign * Head(sorted).count THEN <<row>> \o sorted
    ELSE <<Head(sorted)>> \o InsertBy(row, Tail(sorted), sign)

RECURSIVE SortBy(_, _)
SortBy(t, sign) ==
    IF t = <<>> THEN <<>>
    ELSE InsertBy(t[Len(t)], SortBy(SubSeq(t, 1, Len(t) - 1), sign), sign)

Reverse(t) == [i \in 1..Len(t) |-> t[Len(t) + 1 - i]]

sort_values_desc_bad(t) == Reverse(SortBy(t, 1))

\* sort_values(by count, ascending=False)
sort_values_desc(t) == SortBy(t, -1)

\* sort_values(by count, ascending=True)
sort_values_asc(t) == SortBy(t, 1)

\* .head(n)
head(t, n) == SubSeq(t, 1, IF n < Len(t) THEN n ELSE Len(t))

\* .nlargest(n) / .nlargest(n, 'Count'), keep='first': the n largest in
\* descending order, rows of equal count in their order.
nlargest(t, n) == head(sort_values_desc(t), n)

\* firstapp.py, trydash.py: value_counts().nlargest(10) and
\* fraud_counts.nlargest(10, 'Fraud_Count')
state_counts(t) == nlargest(sort_values_desc(t), TopN)

\* mainapp.py: fraud_counts.sort_values(by='Fraud Count', ascending=False).head(10)
top_frauds(t) == head(sort_values_desc(t), TopN)

\* mainapp4.py: postcode_data, nlargest(10, 'Count') re-sorted ascending for the
\* horizontal bars.
postcode_data(t) == sort_values_asc(nlargest(t, TopN))

RankingViews == {"state_counts", "top_frauds", "postcode_data"}

Ranking(view, t) ==
    CASE view = "state_counts" -> state_counts(t)
      [] view = "top_frauds" -> top_frauds(t)
      [] view = "postcode_data" -> postcode_data(t)

\* A ranking is computed from a table of group counts.
Rank(view) ==
    /\ agg_pass = 0
    /\ agg_view' = view
    /\ agg_output' = Ranking(view, agg_input)
    /\ agg_pass' = 1
    /\ UNCHANGED <<agg_input, widgetVars, sharedVars, storeVars, sliderVars,
                   flightVars, chartVars>>

\* The same ranking is computed again from its own output.
RankAgain ==
    /\ agg_pass = 1
    /\ agg_input' = agg_output
    /\ agg_output' = Ranking(agg_view, agg_output)
    /\ agg_pass' = 2
    /\ UNCHANGED <<agg_view, widgetVars, sharedVars, storeVars, sliderVars,
                   flightVars, chartVars>>

InitRank ==
    /\ agg_input \in Tables
    /\ agg_view = Null
    /\ agg_output = <<>>
    /\ agg_pass = 0
    /\ contents = None
    /\ channel_options = {}
    /\ state_options = {}
    /\ state_filter = None
    /\ channel_filter = None
    /\ start_date = None
    /\ end_date = None
    /\ SharedUnused
    /\ StoreUnused
    /\ SliderUnused
    /\ FlightUnused
    /\ ChartUnused

NextRank ==
    \/ \E view \in RankingViews : Rank(view)
    \/ RankAgain

SpecRank == InitRank /\ [][NextRank]_vars

\* ---- ties
\* The groups of a categorical column in the order in which the records first
\* show them, each with its key and its number of records; the keys ascend or
\* descend along that order.
SeenTables ==
    UNION {{[i \in 1..k |-> [key |-> IF up THEN i ELSE k + 1 - i, count |-> c[i]]] :
               c \in [1..k -> GroupCounts], up \in BOOLEAN} : k \in 0..MaxGroups}

\* groupby(col).size(): the groups sorted by key.
groupby_size(t) ==
    [i \in 1..Len(t) |->
        CHOOSE g \in {t[j] : j \in 1..Len(t)} :
            Cardinality({j \in 1..Len(t) : t[j].key < g.key}) = i - 1]

\* mainapp4.py: channel_data.sort_values('Count', ascending=False)
channel_data(t) == sort_values_desc(groupby_size(t))

TieViews == {"firstapp.state_counts", "mainapp.top_frauds", "mainapp4.channel_data"}

TieRanking(view, t) ==
    CASE view = "firstapp.state_counts" -> state_counts(t)
      [] view = "mainapp.top_frauds" -> top_frauds(groupby_size(t))
      [] view = "mainapp4.channel_data" -> channel_data(t)

\* A dashboard ranks the groups of the records.
RankGroups(view) ==
    /\ agg_pass = 0
    /\ agg_view' = view
    /\ agg_output' = TieRanking(view, agg_input)
    /\ agg_pass' = 1
    /\ UNCHANGED <<agg_input, widgetVars, sharedVars, storeVars, sliderVars,
                   flightVars, chartVars>>

InitTies ==
    /\ agg_input \in SeenTables
    /\ agg_view = Null
    /\ agg_output = <<>>
    /\ agg_pass = 0
    /\ contents = None
    /\ channel_options = {}
    /\ state_options = {}
    /\ state_filter = None
    /\ channel_filter = None
    /\ start_date = None
    /\ end_date = None
    /\ SharedUnused
    /\ StoreUnused
    /\ SliderUnused
    /\ FlightUnused
    /\ ChartUnused

NextTies == \E view \in TieViews : RankGroups(view)

SpecTies == InitTies /\ [][NextTies]_vars

\* ============================================================ fraud counts
\* The fraud counts and the monthly series of the dashboards, computed from a
\* table of records (the filtered set).
NoDashboard ==
    /\ contents = None
    /\ channel_options = {}
    /\ state_options = {}
    /\ state_filter = None
    /\ channel_filter = None
    /\ start_date = None
    /\ end_date = None
    /\ SharedUnused
    /\ StoreUnused
    /\ SliderUnused
    /\ FlightUnused
    /\ ChartUnused

Months == 1..MaxMonth
Categories == {Null, "No Fraud", "Fraudulent", "Under Investigation"}

\* One record: policy number, month of the date of death and of the intimation
\* date (None for NaT), fraud category.
Records ==
    {[pol |-> v[1], death |-> v[2], intim |-> v[3], fraud |-> v[4]] :
        v \in {Null, "P1"} \X ({Some(m) : m \in Months} \cup {None})
               \X {Some(1)} \X Categories}
    \cup {[pol |-> "P1", death |-> Some(1), intim |-> Some(MaxMonth),
           fraud |-> "Fraudulent"]}

\* Series.notna()
notna(cell) == cell # Null

\* sectry.py: df['Fraud Category'].isin(['Fraudulent', 'Suspicious'])
Fraud_Flag(category) == category \in {"Fraudulent", "Suspicious"}

\* triy.py: notna() & (df['Fraud Category'] != "No Fraud")
fraud_filtered(category) == notna(category) /\ category # "No Fraud"

\* A float: a quotient of integers, or the NaN / infinity of a division by 0.
Float(n, d) ==
    IF d # 0 THEN <<"float", n, d>> ELSE IF n = 0 THEN <<"nan">> ELSE <<"inf">>

\* Series.dt.to_period('M'): NaT stays NaT; .astype(str) names it 'NaT'.
PeriodStr(month) == IF month = None THEN <<"NaT">> ELSE <<"period", month[1]>>

\* groupby(key): the keys present, ascending, a null key dropped.
GroupKeys(df, key) ==
    LET present == {df[k][key] : k \in 1..Len(df)} \ {None}
    IN  [i \in 1..Cardinality(present) |->
            CHOOSE m \in present :
                Cardinality({x \in present : x[1] < m[1]}) = i - 1]

\* mainapp.py, trydb.py: the monthly series of update_all_visualizations.
time_series_df(df) ==
    LET keys == GroupKeys(df, "death") IN
    [i \in 1..Len(keys) |->
        LET bucket == SelectSeq(df, LAMBDA r : r.death = keys[i])
            Total_Claims == Len(SelectSeq(bucket, LAMBDA r : notna(r.pol)))
            Fraud_Claims == Len(SelectSeq(bucket, LAMBDA r : notna(r.fraud)))
        IN  [Death_Month |-> PeriodStr(keys[i]),
             Total_Claims |-> Total_Claims,
             Fraud_Claims |-> Fraud_Claims,
             Fraud_Rate |-> Float(Fraud_Claims * 100, Total_Claims)]]

\* groupby(key).size() of a column of period strings, sorted by
\* pd.to_datetime of the string (NaT last).
SizeByPeriodStr(df, key) ==
    LET keys == GroupKeys(df, key)
        months == [i \in 1..Len(keys) |->
                      [month |-> PeriodStr(keys[i]),
                       size |-> Len(SelectSeq(df, LAMBDA r : r[key] = keys[i]))]]
        nat == Len(SelectSeq(df, LAMBDA r : r[key] = None))
    IN  IF nat = 0 THEN months
        ELSE Append(months, [month |-> PeriodStr(None), size |-> nat])

\* mainapp4.py: Death_Month, 'Fraud Cases'
fraud_by_month(df) == SizeByPeriodStr(df, "death")

\* firstapp.py: Month_Year of the intimation date, 'Count'
time_series(df) == SizeByPeriodStr(df, "intim")

\* Series.dt.strftime('%Y-%m-%d'): NaT gives NaN.
FormatDate(cell) == IF cell = None THEN <<"nan">> ELSE <<"%Y-%m-%d", cell[1]>>

\* table_df[[col['id'] for col in columns]].to_dict('records') after the date
\* columns were formatted.
table_data(df) ==
    [i \in 1..Len(df) |->
        [pol |-> df[i].pol, death |-> FormatDate(df[i].death),
         intim |-> FormatDate(df[i].intim), fraud |-> df[i].fraud]]

\* groupby('CHANNEL').size(): every record modelled has the channel "Agent".
channel_df(df) ==
    IF df = <<>> THEN {} ELSE {[CHANNEL |-> "Agent", Count |-> Len(df)]}

\* trydb.py: filtered_df[filtered_df['Date of Death'].notna()], ahead of
\* every chart and of the table.
death_notna(df) == SelectSeq(df, LAMBDA r : r.death # None)

TableViews == {"mainapp.table_data", "triy.table_data", "trydb.table_data"}
ChannelViews == {"mainapp.channel_df", "trydb.channel_df"}

KpiViews == {"mainapp.fraud_cases", "mainapp.fraud_df", "sectry.fraud_cases",
             "triy.fraud_cases"}
MonthlyViews == {"mainapp.time_series_df", "mainapp4.fraud_by_month",
                 "firstapp.time_series"}

Counted(view, df) ==
    CASE view = "mainapp.fraud_cases" -> Len(SelectSeq(df, LAMBDA r : notna(r.fraud)))
      [] view = "mainapp.fraud_df" -> Len(SelectSeq(df, LAMBDA r : notna(r.fraud)))
      [] view = "sectry.fraud_cases" -> Len(SelectSeq(df, LAMBDA r : Fraud_Flag(r.fraud)))
      [] view = "triy.fraud_cases" -> Len(SelectSeq(df, LAMBDA r : fraud_filtered(r.fraud)))
      [] view = "mainapp.time_series_df" -> time_series_df(df)
      [] view = "mainapp4.fraud_by_month" -> fraud_by_month(df)
      [] view = "firstapp.time_series" -> time_series(df)
      [] view = "mainapp.table_data" -> table_data(df)
      [] view = "triy.table_data" ->
             table_data(SelectSeq(df, LAMBDA r : fraud_filtered(r.fraud)))
      [] view = "trydb.table_data" -> table_data(death_notna(df))
      [] view = "mainapp.channel_df" -> channel_df(df)
      [] view = "trydb.channel_df" -> channel_df(death_notna(df))

\* A dashboard computes one of its counts from the filtered set; the charts
\* are drawn from a set that is not empty.
Count(view) ==
    /\ agg_pass = 0
    /\ view \in MonthlyViews => agg_input # <<>>
    /\ agg_view' = view
    /\ agg_output' = Counted(view, agg_input)
    /\ agg_pass' = 1
    /\ UNCHANGED <<agg_input, widgetVars, sharedVars, storeVars, sliderVars,
                   flightVars, chartVars>>

InitCount ==
    /\ agg_input \in SeqsUpTo(Records, MaxRecords)
    /\ agg_view = Null
    /\ agg_output = <<>>
    /\ agg_pass = 0
    /\ NoDashboard

NextCount ==
    \E view \in KpiViews \cup MonthlyViews \cup TableViews \cup ChannelViews :
        Count(view)

SpecCount == InitCount /\ [][NextCount]_vars

\* ============================================================ radar
\* firstapp.py, trydash.py: the per-channel metrics of the radar chart and
\* their min-max normalization.
TopK == 5
RadarColumns == {"Avg_Policy_to_Death", "Avg_Death_to_Intimation", "Count"}

\* radar_data: one row per channel.
RadarTables ==
    (SeqsUpTo({[Avg_Policy_to_Death |-> v[1], Avg_Death_to_Intimation |-> v[2],
                Count |-> v[3]] : v \in (0..1) \X (0..1) \X (1..2)},
              MaxRadarChannels)
     \ {<<>>})
    \cup {[i \in 1..(TopK + 1) |->
              [Avg_Policy_to_Death |-> i % 2, Avg_Death_to_Intimation |-> 0,
               Count |-> IF up THEN i ELSE TopK + 2 - i]] : up \in BOOLEAN}

SeqMax(vals) == CHOOSE m \in {vals[i] : i \in 1..Len(vals)} :
                    \A i \in 1..Len(vals) : vals[i] <= m
SeqMin(vals) == CHOOSE m \in {vals[i] : i \in 1..Len(vals)} :
                    \A i \in 1..Len(vals) : m <= vals[i]

\* (radar_data[col] - min_val) / (max_val - min_val)
Normalized(radar_data, col) ==
    LET vals == Column(radar_data, col)
        max_val == SeqMax(vals)
        min_val == SeqMin(vals)
    IN  [i \in 1..Len(vals) |-> Float(vals[i] - min_val, max_val - min_val)]

\* The loop over the three metric columns.
Normalize ==
    /\ agg_pass = 0
    /\ agg_view' = "radar_data"
    /\ agg_output' = [col \in RadarColumns |-> Normalized(agg_input, col)]
    /\ agg_pass' = 1
    /\ UNCHANGED <<agg_input, widgetVars, sharedVars, storeVars, sliderVars,
                   flightVars, chartVars>>

\* radar_data with its three normalized columns.
WithNormalized(radar_data) ==
    [i \in 1..Len(radar_data) |->
        [key |-> i, count |-> radar_data[i].Count,
         Normalized |-> [col \in RadarColumns |-> Normalized(radar_data, col)[i]]]]

\* top_channels = radar_data.nlargest(5, 'Count'): one trace per row.
DrawRadar ==
    /\ agg_pass = 0
    /\ agg_view' = "fig_radar"
    /\ agg_output' = nlargest(WithNormalized(agg_input), TopK)
    /\ agg_pass' = 1
    /\ UNCHANGED <<agg_input, widgetVars, sharedVars, storeVars, sliderVars,
                   flightVars, chartVars>>

InitRadar ==
    /\ agg_input \in RadarTables
    /\ agg_view = Null
    /\ agg_output = <<>>
    /\ agg_pass = 0
    /\ NoDashboard

NextRadar == Normalize \/ DrawRadar

SpecRadar == InitRadar /\ [][NextRadar]_vars

\* ============================================================ cross-tab
\* The state-by-channel cross-tab of the dashboards.  The filtered set is given
\* per state, in the order in which the states first appear: the number of
\* its records of each channel and of its records without a channel.
StateProfiles ==
    {[Agent |-> 1, Direct |-> 1, none |-> 0],
     [Agent |-> 1, Direct |-> 0, none |-> 2]}

CrossInputs == UNION {[1..k -> StateProfiles] : k \in 0..MaxGroups}

\* groupby(['CORRESPONDENCESTATE', 'CHANNEL']).size(): a record without a
\* channel is in no group.
state_channel(df) ==
    {[state |-> i, channel |-> c, Count |-> df[i][c]] :
        i \in 1..Len(df), c \in Channels}
    \ {[state |-> i, channel |-> c, Count |-> 0] : i \in 1..Len(df), c \in Channels}

Keys(t) == {t[i].key : i \in 1..Len(t)}

\* The sum of the cells of a state.
StateTotal(df, i) == df[i].Agent + df[i].Direct

\* mainapp.py: state_channel_df.groupby('CORRESPONDENCESTATE')['Count'].sum()
\* firstapp.py: pivot_data.sum(axis=1)
CellSums(df) == [i \in 1..Len(df) |-> [key |-> i, count |-> StateTotal(df, i)]]

\* mainapp4.py: df['CORRESPONDENCESTATE'].value_counts()
value_counts(df) ==
    sort_values_desc([i \in 1..Len(df) |->
                         [key |-> i, count |-> StateTotal(df, i) + df[i].none]])

CrossTabViews == {"mainapp.state_channel_df", "mainapp4.state_channel_data",
                  "mainapp2.fig4", "firstapp.stacked_data"}

top_states(view, df) ==
    CASE view = "mainapp.state_channel_df" -> Keys(nlargest(CellSums(df), TopN))
      [] view = "firstapp.stacked_data" -> Keys(nlargest(CellSums(df), TopN))
      [] view = "mainapp4.state_channel_data" -> Keys(nlargest(value_counts(df), TopN))
      [] view = "mainapp2.fig4" -> 1..Len(df)

CrossTab(view, df) ==
    {cell \in state_channel(df) : cell.state \in top_states(view, df)}

\* A dashboard draws its cross-tab from the filtered set.
DrawCrossTab(view) ==
    /\ agg_pass = 0
    /\ agg_view' = view
    /\ agg_output' = CrossTab(view, agg_input)
    /\ agg_pass' = 1
    /\ UNCHANGED <<agg_input, widgetVars, sharedVars, storeVars, sliderVars,
                   flightVars, chartVars>>

InitCross ==
    /\ agg_input \in CrossInputs
    /\ agg_view = Null
    /\ agg_output = <<>>
    /\ agg_pass = 0
    /\ NoDashboard

NextCross == \E view \in CrossTabViews : DrawCrossTab(view)

SpecCross == InitCross /\ [][NextCross]_vars

\* ============================================================ properties
\* A step in which the named callback of the dcc.Store dashboards ran.
Ran(cb) == cb \in pending /\ cb \notin pending'

\* The records a run of update_metrics kept: none when it returned its zeros
\* before filtering.
KeptBy(m) == IF m.filtered_df = None THEN <<>> ELSE m.filtered_df[1]

\* A selection of a categorical filter that restricts nothing.
Wildcard(v) == v = None \/ v[1] = {}

\* ---- C1
\* C1 (filter identity): whenever the filter runs on an ingested collection R
\* with no state selected, no channel selected and no date range, the records
\* it keeps are exactly R.  Stated of update_metrics of the global_df
\* dashboard: each run with the dropdowns at "All" or cleared and the date
\* picker empty keeps every row of global_df.
C1_FilterIdentity ==
    [][(/\ pending_metrics /\ ~pending_metrics'
        /\ global_df # None
        /\ start_date = None /\ end_date = None
        /\ channel_filter \in {Null, "All"}
        /\ state_filter \in {Null, "All"})
       => KeptBy(metrics') = global_df[1].rows]_vars

\* ---- C2
\* C2 (wildcard semantics): after filter_data has run with the selection it
\* recorded in filter-state, every kept record has its state in the selected
\* states or no state is selected, and its channel in the selected channels or
\* no channel is selected; when no date bound is set the kept records are
\* exactly those, so an empty selection never empties the result and a
\* selection of "Agent" alone keeps exactly the "Agent" records.
C2_WildcardSemantics ==
    (filter_state # None /\ processed_data # None /\ filtered_data # None) =>
        LET fs == filter_state[1]
            keep(r) ==
                /\ Wildcard(fs.states) \/ (r.state # Null /\ r.state \in fs.states[1])
                /\ Wildcard(fs.channels)
                   \/ (r.channel # Null /\ r.channel \in fs.channels[1])
            kept == filtered_data[1].rows
        IN  /\ \A k \in 1..Len(kept) : keep(kept[k])
            /\ (fs.start_date = None /\ fs.end_date = None)
               => kept = SelectSeq(processed_data[1].rows, keep)

\* Apply Filters ran with only "Agent" selected and kept some records, not all.
C2_Witness ==
    /\ trigger = "apply-filters"
    /\ pending = {}
    /\ cb_error = Null
    /\ filter_state # None
    /\ filter_state[1].channels = Some({"Agent"})
    /\ Wildcard(filter_state[1].states)
    /\ filter_state[1].start_date = None /\ filter_state[1].end_date = None
    /\ filtered_data # None
    /\ Len(filtered_data[1].rows) = 1
    /\ Len(processed_data[1].rows) = 2

\* ---- C3
\* C3 (inclusive date range on the policy-start date): whenever the filter runs
\* with both date bounds given, it keeps a record iff start <= policy-start
\* date <= end, the endpoints included (and the record passes the state and
\* channel filters).  Stated of update_metrics of the global_df dashboard.
C3_DateRangeOnPolicyStart ==
    [][(/\ pending_metrics /\ ~pending_metrics'
        /\ global_df # None
        /\ start_date # None /\ end_date # None)
       => LET keep(r) ==
                  /\ r.start # None
                  /\ start_date[1] <= r.start[2] /\ r.start[2] <= end_date[1]
                  /\ channel_filter \in {Null, "All"} \/ r.channel = channel_filter
                  /\ state_filter \in {Null, "All"} \/ r.state = state_filter
          IN  KeptBy(metrics') = SelectSeq(global_df[1].rows, keep)]_vars

\* ---- C4
\* C4 (one missing bound): whenever filter_data runs on Apply Filters with
\* exactly one date bound set, the filtered-data it leaves holds every record
\* (of those passing the state and channel filters) whose policy-start date is
\* >= the start bound, or <= the end bound, and no other.
C4_MissingBoundOneSided ==
    [][(/\ Ran("filter_data")
        /\ trigger = "apply-filters"
        /\ ~Falsy(processed_data)
        /\ (start_date = None) # (end_date = None))
       => LET keep(r) ==
                  /\ r.start # None
                  /\ start_date # None => r.start[2] >= start_date[1]
                  /\ end_date # None => r.start[2] <= end_date[1]
          IN  /\ filtered_data' # None
              /\ filtered_data'[1].rows =
                    SelectSeq(ByCategory(processed_data[1].rows, state_filter,
                                         channel_filter), keep)]_vars

\* ---- C5
\* C5 (missing policy-start date): once Apply Filters was processed with at
\* least one date bound set, no record without a policy-start date is in
\* filtered-data.
C5_MissingStartExcluded ==
    (/\ trigger = "apply-filters"
     /\ "filter_data" \notin pending
     /\ (start_date # None \/ end_date # None)
     /\ filtered_data # None)
    => \A k \in 1..Len(filtered_data[1].rows) : filtered_data[1].rows[k].start # None

\* ---- C6
\* C6 (AND composition): once Apply Filters was processed, filtered-data is the
\* intersection of the record sets each active filter (state, channel, start
\* bound, end bound) keeps when applied alone to processed-data.
C6_FiltersIntersect ==
    (/\ trigger = "apply-filters"
     /\ "filter_data" \notin pending
     /\ ~Falsy(processed_data))
    => LET rows == processed_data[1].rows
           alone_state == {k \in 1..Len(rows) :
                Wildcard(state_filter) \/ isin(rows[k].state, state_filter)}
           alone_channel == {k \in 1..Len(rows) :
                Wildcard(channel_filter) \/ isin(rows[k].channel, channel_filter)}
           alone_start == {k \in 1..Len(rows) :
                start_date = None \/ GeDate(rows[k].start, start_date[1])}
           alone_end == {k \in 1..Len(rows) :
                end_date = None \/ LeDate(rows[k].start, end_date[1])}
           all == alone_state \cap alone_channel \cap alone_start \cap alone_end
       IN  /\ filtered_data # None
           /\ filtered_data[1].rows = SelectSeq(rows, LAMBDA r :
                  \E k \in all : rows[k] = r)

\* ---- C7
\* C7 (purity): two runs of the filter step on the same uploaded collection
\* with the same criteria give the same output, whatever happened in between,
\* other sessions' uploads included.  Stated of update_metrics: with the
\* session's upload and criteria as they were at the run memo recorded, the
\* metrics shown are those of that run.
C7_SameInputsSameOutput ==
    (/\ memo # None
     /\ ~pending_metrics
     /\ memo[1].contents = contents
     /\ memo[1].criteria = Criteria)
    => metrics = memo[1].metrics

\* ---- C8
\* C8 (null day counts): for every ingested record the policy-to-death day
\* count is null when the policy-start date or the date of death is missing or
\* unparseable, and the death-to-intimation day count is null when the date of
\* death or the intimation date is; and a day count that is not null is the
\* difference of its two dates.
C8_DayCountsNull ==
    (contents # None /\ processed_data # None) =>
        \A k \in 1..Len(processed_data[1].rows) :
            LET raw == contents[1].rows[k]
                row == processed_data[1].rows[k]
                unusable(cell) == cell = None \/ cell[1] = "text"
            IN  /\ (unusable(raw.start) \/ unusable(raw.death)) => row.p2d = None
                /\ (unusable(raw.death) \/ unusable(raw.intim)) => row.d2i = None
                /\ row.p2d # None => row.p2d = Some(raw.death[2] - raw.start[2])
                /\ row.d2i # None => row.d2i = Some(raw.intim[2] - raw.death[2])

\* A stored record with an unparseable policy-start date, a real date of death
\* and intimation date: one day count null, the other an integer.
C8_Witness ==
    /\ contents # None
    /\ processed_data # None
    /\ \E k \in 1..Len(processed_data[1].rows) :
        /\ contents[1].rows[k].start = RawText
        /\ contents[1].rows[k].death = RawDate(0)
        /\ contents[1].rows[k].intim = RawDate(MaxDay)
        /\ processed_data[1].rows[k].p2d = None
        /\ processed_data[1].rows[k].d2i = Some(MaxDay)

\* ---- C9
\* C9 (schema check): when the table a session uploaded lacks one of the nine
\* required columns, the upload status is the missing-columns error naming
\* every column that lacks, and the table is not the stored dataset.
C9_MissingColumnRejected ==
    (/\ contents # None
     /\ contents[1].filename = "csv"
     /\ contents[1].readable
     /\ Columns \ contents[1].cols # {})
    => /\ upload_status.kind = "missing"
       /\ {upload_status.missing[k] : k \in 1..Len(upload_status.missing)}
            = RenamePolicy(Columns) \ RenamePolicy(contents[1].cols)
       /\ global_df # Some(SharedFrame(contents[1]))

\* ---- C10
\* C10 (empty filtered set): whenever a view callback runs and its filter keeps
\* zero records, it returns its well-formed empty result and does not raise.
\* Stated of update_graphs.
C10_EmptySetTolerated ==
    [][(/\ Ran("update_graphs")
        /\ ~Falsy(processed_data)
        /\ LET f == slider_filtered(processed_data, state_filter, city_filter,
                                    age_range)
           IN  ~f.raised /\ f.rows = <<>>)
       => (cb_error' = Null /\ charts' # None)]_vars

\* ---- C11
\* C11 (Top-N): a ranking returns the groups sorted by count descending and
\* truncated to the first N = 10: all groups when fewer than N exist, each
\* returned group one of the input with its count, and no returned group with
\* a smaller count than a group left out.
C11_TopNSortedTruncated ==
    agg_pass = 1 =>
        LET out == agg_output
            inp == agg_input
            keys(t) == {t[i].key : i \in 1..Len(t)}
        IN  /\ Len(out) = (IF Len(inp) < TopN THEN Len(inp) ELSE TopN)
            /\ \A i \in 1..Len(out) : \E j \in 1..Len(inp) : out[i] = inp[j]
            /\ Cardinality(keys(out)) = Len(out)
            /\ \A i \in 1..Len(out) : \A j \in 1..Len(inp) :
                    inp[j].key \notin keys(out) => out[i].count >= inp[j].count
            /\ \A i \in 1..Len(out) : \A j \in i..Len(out) :
                    out[i].count >= out[j].count

\* ---- C12
\* C12 (Top-N idempotent): a ranking computed again from its own output returns
\* that output: the same groups with the same counts in the same order, tied
\* counts included.
C12_TopNIdempotent ==
    agg_pass = 2 => agg_output = agg_input

\* A ranking was recomputed from an output of N groups, some of them tied and
\* some not.
C12_Witness ==
    /\ agg_pass = 2
    /\ Len(agg_input) = TopN
    /\ \E i \in 1..TopN : \E j \in 1..TopN :
            i # j /\ agg_input[i].count = agg_input[j].count
    /\ \E i \in 1..TopN : \E j \in 1..TopN : agg_input[i].count # agg_input[j].count

\* The policy dashboard shows the rate of a parsed table with all its columns.
RateShown ==
    /\ pending = {}
    /\ contents # None
    /\ csv_parse_contents(contents) # None
    /\ Columns \subseteq contents[1].cols

\* C13: the KPI fraud rate is the number of fraud-flagged records divided by
\* the number of records in the filtered set, times 100 and rounded, and
\* exactly 0 when the filtered set has no records.
C13_FraudRateOverRecords ==
    RateShown =>
        LET records == Len(metrics.filtered_df[1]) IN
        metrics.fraud_rate =
            Percent2(IF records = 0 THEN 0
                     ELSE RoundHalfEven(10000 * metrics.fraud_cases, records))

\* The flag of the contract: a category that is present and not "No Fraud".
Flagged(r) == r.fraud # Null /\ r.fraud # "No Fraud"

\* C14: every fraud count counts exactly the records whose fraud category is
\* present and is not "No Fraud".
C14_OneFraudFlag ==
    (agg_pass = 1 /\ agg_view \in KpiViews) =>
        agg_output = Len(SelectSeq(agg_input, Flagged))

\* What a monthly series reports per bucket: month, total and, where the
\* series has one, fraud count.
Reported(view, series) ==
    IF view = "mainapp.time_series_df"
    THEN {[month |-> series[i].Death_Month, total |-> series[i].Total_Claims,
           fraud |-> series[i].Fraud_Claims] : i \in 1..Len(series)}
    ELSE {[month |-> series[i].month, total |-> series[i].size] :
              i \in 1..Len(series)}

\* The buckets of the contract: one per calendar month of a date of death,
\* with the records of the month and the fraud-flagged ones among them.
DeathMonthBuckets(view, df) ==
    LET months == {df[k].death : k \in 1..Len(df)} \ {None}
        total(m) == Len(SelectSeq(df, LAMBDA r : r.death = m))
        fraud(m) == Len(SelectSeq(df, LAMBDA r : r.death = m /\ Flagged(r)))
    IN  IF view = "mainapp.time_series_df"
        THEN {[month |-> PeriodStr(m), total |-> total(m), fraud |-> fraud(m)] :
                  m \in months}
        ELSE {[month |-> PeriodStr(m), total |-> total(m)] : m \in months}

\* C15: the monthly series has one bucket per calendar month of the dates of
\* death of the filtered records, and each bucket reports the number of
\* records of that month and the number of fraud-flagged records among them.
C15_MonthlyByDeathMonth ==
    (agg_pass = 1 /\ agg_view \in MonthlyViews) =>
        Reported(agg_view, agg_output) = DeathMonthBuckets(agg_view, agg_input)

\* C16: in the monthly series a bucket whose counted total is 0 has the fraud
\* rate 0, not NaN and not infinity.
C16_EmptyBucketRateZero ==
    (agg_pass = 1 /\ agg_view = "mainapp.time_series_df") =>
        \A i \in 1..Len(agg_output) :
            agg_output[i].Total_Claims = 0 =>
                /\ agg_output[i].Fraud_Rate[1] = "float"
                /\ agg_output[i].Fraud_Rate[2] = 0

\* C17: a metric column of the radar chart whose channels all have the same
\* value (a single channel included) is normalized to 0.5 for every channel.
C17_EqualValuesMidpoint ==
    (agg_pass = 1 /\ agg_view = "radar_data") =>
        \A col \in RadarColumns :
            (\A i, j \in 1..Len(agg_input) : agg_input[i][col] = agg_input[j][col])
                => \A i \in 1..Len(agg_input) : agg_output[col][i] = Float(1, 2)

\* C18: the cross-tab shows the cells of min(10, number of states) states,
\* no state left out has a larger total over its channels than a state
\* shown, and every cell of a state shown is shown.
C18_CrossTabTopStates ==
    (agg_pass = 1 /\ agg_view \in CrossTabViews) =>
        LET cells == state_channel(agg_input)
            total(st) == StateTotal(agg_input, st)
            shown == {cell.state : cell \in agg_output}
            others == (1..Len(agg_input)) \ shown
        IN  /\ agg_output \subseteq cells
            /\ \A cell \in cells : cell.state \in shown => cell \in agg_output
            /\ Cardinality(shown) = (IF Len(agg_input) < TopN
                                     THEN Len(agg_input) ELSE TopN)
            /\ \A st \in shown, other \in others : total(st) >= total(other)

\* C19: once no callback is running, the filtered set, the KPI summary and
\* the charts are those of the latest request: its criteria applied to the
\* dataset now stored.
C19_LastWriteWins ==
    (pending = {} /\ submitted # None) =>
        LET a == submitted[1]
            r == filter_data(processed_data, trigger, a.states, a.channels,
                             a.start, a.end)
        IN  /\ ~r.raised
            /\ filtered_data = r.data
            /\ kpi_metrics = update_kpi_metrics(r.data).data
            /\ ~update_all_visualizations(r.data).raised
            /\ charts = update_all_visualizations(r.data).data

\* C20: the KPI summary and the charts of a session are computed from the
\* dataset of the session's own upload, whatever other sessions uploaded.
C20_SessionSnapshot ==
    (/\ contents # None
     /\ upload_data(contents).out.main = "block"
     /\ ~pending_metrics
     /\ ~pending_charts)
    => LET snapshot == upload_data(contents).store IN
       /\ metrics = update_metrics(snapshot, start_date, end_date,
                                   channel_filter, state_filter)
       /\ figures = update_all_charts(snapshot, start_date, end_date,
                                      channel_filter, state_filter)

\* A step of the observed session other than an upload of its own: a widget
\* is changed, or a view callback runs.
ViewStep ==
    /\ contents' = contents
    /\ <<widgetVars, metrics, pending_metrics, chartVars>>'
           # <<widgetVars, metrics, pending_metrics, chartVars>>

\* C21: no filter change and no view computation changes the stored records;
\* only an upload replaces them, and it replaces them by the whole collection
\* of the uploaded file.
C21_StoredRecordsImmutable ==
    [][/\ ViewStep => global_df' = global_df
       /\ global_df' # global_df =>
              \E f \in SessionFiles : global_df' = upload_data(Some(f)).store]_vars

\* The charts were drawn from a filtered set smaller than the stored dataset.
C21_Witness ==
    /\ ~pending_charts
    /\ figures.kind = "figures"
    /\ global_df # None
    /\ Len(figures.filtered_df[1]) < Len(global_df[1].rows)

\* C22: the table has one row per record of the filtered set, in order, each
\* the projection of its record onto the columns of the table.
C22_TableReshapesFilteredSet ==
    (agg_pass = 1 /\ agg_view \in TableViews) =>
        /\ Len(agg_output) = Len(agg_input)
        /\ \A i \in 1..Len(agg_input) :
               /\ agg_output[i].pol = agg_input[i].pol
               /\ agg_output[i].fraud = agg_input[i].fraud
               /\ agg_output[i].death = FormatDate(agg_input[i].death)
               /\ agg_output[i].intim = FormatDate(agg_input[i].intim)

\* The records of the filtered set without a date of death.
Undated(df) == SelectSeq(df, LAMBDA r : r.death = None)

\* C23: a record without a date of death is left out of the monthly series
\* but is counted in the category counts and appears in the table.
C23_MissingDeathDateOnlyThere ==
    agg_pass = 1 =>
        /\ agg_view \in ChannelViews =>
               agg_output = channel_df(agg_input)
        /\ agg_view \in {"mainapp.table_data", "trydb.table_data"} =>
               Len(SelectSeq(agg_output, LAMBDA row : row.death = FormatDate(None)))
                   = Len(Undated(agg_input))
        /\ agg_view = "mainapp.time_series_df" =>
               \A i \in 1..Len(agg_output) :
                   agg_output[i].Death_Month # PeriodStr(None)

\* C24: groups come out by count descending, groups of equal count in the
\* order in which the records first show them, and the Top-N cut keeps the
\* first of them.
C24_TiesByFirstSeen ==
    (agg_pass = 1 /\ agg_view \in TieViews) =>
        agg_output = (IF agg_view = "mainapp4.channel_data"
                      THEN sort_values_desc(agg_input)
                      ELSE head(sort_values_desc(agg_input), TopN))

\* C25: the radar chart keeps the five channels of largest count (all of them
\* if fewer); each value kept is the min-max normalization of the metric over
\* all the channels of the filtered data and lies in [0, 1].
C25_RadarNormalizedThenTopK ==
    (agg_pass = 1 /\ agg_view = "fig_radar") =>
        /\ Len(agg_output) = (IF Len(agg_input) < TopK THEN Len(agg_input) ELSE TopK)
        /\ \A i \in 1..Len(agg_output), j \in 1..Len(agg_input) :
               (\A k \in 1..Len(agg_output) : agg_output[k].key # j)
                   => agg_output[i].count >= agg_input[j].Count
        /\ \A i \in 1..Len(agg_output), col \in RadarColumns :
               LET vals == Column(agg_input, col)
                   value == agg_output[i].Normalized[col]
               IN  /\ value = Float(vals[agg_output[i].key] - SeqMin(vals),
                                    SeqMax(vals) - SeqMin(vals))
                   /\ value[1] = "float"
                   /\ 0 <= value[2] /\ value[2] <= value[3]

\* C26: the KPI fraud count never exceeds the KPI total and the fraud rate
\* lies between 0 and 100 percent, also when policy identifiers repeat or
\* are missing among the filtered records.
C26_FraudWithinTotal ==
    RateShown =>
        /\ metrics.fraud_cases <= metrics.total_policies
        /\ \E hundredths \in 0..10000 : metrics.fraud_rate = Percent2(hundredths)

\* The stores and the views of the dashboard with the Apply button.
StoredViews == <<processed_data, filtered_data, filter_state, kpi_metrics, charts>>

\* C27: with the Apply button, a step that changes the state, channel or date
\* selection leaves the filtered-data store and every view as they were; a
\* request made by Apply, an upload or Reset carries the values the widgets
\* hold at that moment, and the filtered-data store changes only to the
\* answer to such a request.
C27_SelectionWaitsForApply ==
    [][/\ widgetVars' # widgetVars => StoredViews' = StoredViews
       /\ submitted' # submitted =>
              /\ submitted'[1].states = state_filter
              /\ submitted'[1].channels = channel_filter
              /\ submitted'[1].start = start_date
              /\ submitted'[1].end = end_date
       /\ <<filtered_data, filter_state>>' # <<filtered_data, filter_state>> =>
              /\ submitted' = submitted
              /\ LET a == submitted[1]
                     r == filter_data(a.data, trigger, a.states, a.channels,
                                      a.start, a.end)
                 IN  ~r.raised /\ filtered_data' = r.data /\ filter_state' = r.state
      ]_vars

\* The state selection was changed after the last request was answered: the
\* store and the views are still those of the selection of that request.
C27_Witness ==
    /\ pending = {}
    /\ cb_error = Null
    /\ trigger = "apply-filters"
    /\ submitted # None
    /\ submitted[1].states # None
    /\ state_filter # submitted[1].states
    /\ filter_state # None
    /\ filter_state[1].states = submitted[1].states
    /\ kpi_metrics = update_kpi_metrics(filtered_data).data

\* Both callbacks of a Reset click have answered.
ResetDone == trigger = "reset-filters" /\ pending = {}

\* The widgets as reset_filters leaves them.
Cleared == widgetVars = <<None, None, None, None>>

\* The records a store holds: none when it holds null.
StoredRecords(data) == IF data = None THEN <<>> ELSE data[1].rows

\* C28: once the callbacks of a Reset click have answered, filtered-data is
\* the stored dataset, filter-state records None for states, channels, start
\* date and end date, and the four widgets hold None; and whenever no
\* callback is running and the widgets hold None, as they do from a Reset on
\* until the user touches them, in particular after a later Apply,
\* filtered-data holds all the records of the stored dataset.
C28_ResetRestoresAll ==
    /\ ResetDone =>
          /\ filtered_data = processed_data
          /\ filter_state = Some(ResetState)
          /\ Cleared
    /\ (pending = {} /\ Cleared) =>
          StoredRecords(filtered_data) = StoredRecords(processed_data)

\* An Apply was answered with the widgets cleared, after a Reset on a page
\* whose state options were offered for selection.
C28_Witness ==
    /\ pending = {}
    /\ Cleared
    /\ trigger = "apply-filters"
    /\ Cardinality(state_options) > 1
    /\ filter_state = Some(ResetState)
    /\ Len(StoredRecords(processed_data)) = MaxRows
    /\ kpi_metrics = update_kpi_metrics(processed_data).data

\* C29: after an upload that fails (unreadable file, unsupported format,
\* missing column), once the callbacks have answered, the session holds no
\* dataset: nothing is stored, the filter options are empty, the dashboard
\* is hidden, and the KPIs and the charts are the no-data results.
C29_FailedUploadHoldsNothing ==
    (/\ contents # None
     /\ upload_data(contents).out.status.kind \in {"error", "unsupported", "missing"}
     /\ upload_data(contents).store = None
     /\ ~pending_metrics
     /\ ~pending_charts)
    => /\ global_df = None
       /\ channel_options = {}
       /\ state_options = {}
       /\ main_content = "none"
       /\ metrics = ZeroMetrics
       /\ figures = NoDataFigures

\* C30: after a successful upload, once no callback is running, nothing
\* shown derives from an earlier dataset: processed-data is the parsed file,
\* filtered-data, where set, is what the recorded filter state keeps of it,
\* and the KPIs, the charts and the table rows, where shown, are those of
\* filtered-data.
C30_UploadReplacesViews ==
    (/\ pending = {}
     /\ contents # None
     /\ parse_contents(contents).style = "block")
    => /\ processed_data = parse_contents(contents).data
       /\ filtered_data # None =>
              LET fs == filter_state[1]
                  r == filter_data(processed_data, "apply-filters", fs.states,
                                   fs.channels, fs.start_date, fs.end_date)
              IN  ~r.raised /\ filtered_data = r.data
       /\ kpi_metrics \in {None, update_kpi_metrics(filtered_data).data}
       /\ charts \in {None, update_all_visualizations(filtered_data).data}

====
